---------------------------- MODULE Spec2Model ----------------------------
(***************************************************************************)
(* Message dispatch engine of the Discord AI selfbot (src/main.py):        *)
(* trigger classifier, spam/cooldown governor, conversation tracker,       *)
(* per-channel queue workers, batch aggregator, history ring and the       *)
(* response pipeline.  Text is a sequence of one-character strings, time   *)
(* is time.time() in whole seconds.                                        *)
(***************************************************************************)
EXTENDS Integers, Sequences, FiniteSets, TLC

(***************************************************************************)
(* Program constants (src/main.py:185-189).                                *)
(***************************************************************************)
SPAM_MESSAGE_THRESHOLD == 5
SPAM_TIME_WINDOW == 10
COOLDOWN_DURATION == 60
CONVERSATION_TIMEOUT == 300
MAX_HISTORY == 20
\* generate_response_and_reply keeps at most this many chunks (chunks[:3]).
MAX_CHUNKS_SENT == 3

(***************************************************************************)
(* Bounds of the model.                                                    *)
(***************************************************************************)
\* messages delivered to on_message in one behaviour of Spec
MaxMsgs == 2
\* worker tasks of one channel alive at the same time
MaxWorkers == 2
\* chunks split_response may return beyond MAX_CHUNKS_SENT
ExtraChunks == 1
\* governor checks in one behaviour of SpecGov
GovMaxChecks == 7
\* clock advances in one behaviour of SpecGov
GovMaxTicks == 3
\* history writes in one behaviour of SpecHist
HistMaxAppends == 3
\* classifications and clock advances in one behaviour of SpecTrig
TrigMaxSteps == 4

None == "none"

(***************************************************************************)
(* Text: str as a sequence of characters.                                  *)
(***************************************************************************)
LowerLetters ==
  {"a","b","c","d","e","f","g","h","i","j","k","l","m",
   "n","o","p","q","r","s","t","u","v","w","x","y","z"}
UpperLetters == {"H","E","Y"}
Digits == {"0","1","2","3","4","5","6","7","8","9"}
\* characters matched by \w in the trigger regex
WordChars == LowerLetters \cup UpperLetters \cup Digits \cup {"_"}

\* str.lower() on one character
LowerChar(c) ==
  CASE c = "H" -> "h"
    [] c = "E" -> "e"
    [] c = "Y" -> "y"
    [] OTHER -> c

Lower(s) == [i \in 1..Len(s) |-> LowerChar(s[i])]

\* str.startswith
StartsWith(s, p) == Len(s) >= Len(p) /\ SubSeq(s, 1, Len(p)) = p

\* `p in s` for strings
Contains(s, p) ==
  \E i \in 1..(Len(s) - Len(p) + 1) : SubSeq(s, i, i + Len(p) - 1) = p

\* is there a \w character at index k of s
IsWordAt(s, k) == k \in 1..Len(s) /\ s[k] \in WordChars

\* \b between index pos and pos+1 of s (pos in 0..Len(s))
WordBoundary(s, pos) == IsWordAt(s, pos) # IsWordAt(s, pos + 1)

\* a search of the keyword as a substring: `keyword in s`
SubstringSearch(keyword, s) == Contains(s, keyword)

\* re.search(rf"\b{re.escape(keyword)}\b", s)
RegexWordSearch(keyword, s) ==
  \E i \in 0..(Len(s) - Len(keyword)) :
     /\ SubSeq(s, i + 1, i + Len(keyword)) = keyword
     /\ WordBoundary(s, i)
     /\ WordBoundary(s, i + Len(keyword))

T_hello == <<"h","e","l","l","o">>
T_how == <<"h","o","w"," ","a","r","e"," ","y","o","u">>
T_hey == <<"h","e","y">>
T_heyyy == <<"h","e","y","y","y">>
T_hey_there == <<"h","e","y"," ","t","h","e","r","e">>
T_HEY == <<"H","E","Y">>
T_hi == <<"h","i">>
T_everyone == <<"@","e","v","e","r","y","o","n","e">>
T_here == <<"@","h","e","r","e">>

\* config["bot"]["prefix"]
PREFIX == <<"~">>
\* config["bot"]["trigger"], split on commas, stripped and lowered
TRIGGER == {T_hey}
\* the " | " of the batch join
BatchSeparator == <<" ","|"," ">>

T_cmd_pause == PREFIX \o <<"p","a","u","s","e">>
T_cmd_wipe == PREFIX \o <<"w","i","p","e">>
T_cmd_toggle == PREFIX \o <<"t","o","g","g","l","e">>

(***************************************************************************)
(* Identities.                                                             *)
(***************************************************************************)
Users == {1, 2}
\* bot.selfbot_id and config owner_id ("for selfbots these should be the same")
SELFBOT_ID == 9
OWNER_ID == 9
GuildChannels == {"c1", "c2"}
DMChannels == {"d1"}
GroupChannels == {"g1"}
Channels == GuildChannels \cup DMChannels \cup GroupChannels
Workers == 1..MaxWorkers

VARIABLES
  now,                  \* time.time()
  paused, active_channels, ignore_users, allow_dm, allow_gc,
  hold_conversation, batch_messages, realistic_typing,
  message_history,      \* sender -> list of entries (a dict: partial)
  user_message_counts,  \* sender -> recent timestamps
  user_cooldowns,       \* sender -> cooldown end (a dict: partial)
  message_queues,       \* channel -> deque of messages (a dict: partial)
  processing_locks,     \* channel -> asyncio.Lock (a dict: partial)
  user_message_batches, \* <<sender, channel>> -> batch (a dict: partial)
  active_conversations, \* <<sender, channel>> -> last trigger time
  tasks,                \* channel -> worker slot -> process_message_queue task
  arrivals,             \* messages delivered to on_message so far
  lastTaken,            \* channel -> id of the message popped last
  crashed,              \* channel -> a worker task ended by an exception
  probe                 \* last result of the operation a component spec applies

vars ==
  <<now, paused, active_channels, ignore_users, allow_dm, allow_gc,
    hold_conversation, batch_messages, realistic_typing, message_history,
    user_message_counts, user_cooldowns, message_queues, processing_locks,
    user_message_batches, active_conversations, tasks, arrivals,
    lastTaken, crashed, probe>>

configVars ==
  <<paused, active_channels, ignore_users, allow_dm, allow_gc,
    hold_conversation, batch_messages, realistic_typing>>
ghostVars == <<arrivals, lastTaken, crashed>>

(***************************************************************************)
(* Dict helpers.                                                           *)
(***************************************************************************)
DictSet(d, k, v) == [x \in DOMAIN d \cup {k} |-> IF x = k THEN v ELSE d[x]]
DictDel(d, k) == [x \in DOMAIN d \ {k} |-> d[x]]
DictGet(d, k, default) == IF k \in DOMAIN d THEN d[k] ELSE default
EmptyDict == [x \in {} |-> 0]

\* list[-n:]
LastN(s, n) == IF Len(s) <= n THEN s ELSE SubSeq(s, Len(s) - n + 1, Len(s))
\* list[:n]
FirstN(s, n) == IF Len(s) <= n THEN s ELSE SubSeq(s, 1, n)

RECURSIVE SelectSeqBy(_, _)
\* [x for x in s if x in keep]
SelectSeqBy(s, keep) ==
  IF s = <<>> THEN <<>>
  ELSE IF Head(s) \in keep THEN <<Head(s)>> \o SelectSeqBy(Tail(s), keep)
       ELSE SelectSeqBy(Tail(s), keep)

(***************************************************************************)
(* Channel kinds: isinstance(message.channel, discord.DMChannel / Group).  *)
(***************************************************************************)
IsDMChannel(ch) == ch \in DMChannels
IsGroupChannel(ch) == ch \in GroupChannels

ConvKey(m) == <<m.author, m.channel>>

(***************************************************************************)
(* Trigger classifier, is_trigger_message.                                 *)
(***************************************************************************)
Mentioned(m) ==
  /\ m.mentioned
  /\ ~Contains(m.content, T_everyone)
  /\ ~Contains(m.content, T_here)

RepliedTo(m) == m.replied_to

\* a liveness check that reads the entry after the refresh of the evaluation
InConversationAfterRefresh(m, conv, t) ==
  /\ ConvKey(m) \in DOMAIN conv
  /\ t - DictSet(conv, ConvKey(m), t)[ConvKey(m)] < CONVERSATION_TIMEOUT
  /\ hold_conversation

InConversationAt(m, conv, t) ==
  /\ ConvKey(m) \in DOMAIN conv
  /\ t - conv[ConvKey(m)] < CONVERSATION_TIMEOUT
  /\ hold_conversation

ContentHasTrigger(m) ==
  \E keyword \in TRIGGER : RegexWordSearch(keyword, Lower(m.content))

\* a classifier without the live-conversation condition
IsTriggerNoConversation(m, conv, t) ==
  \/ ContentHasTrigger(m)
  \/ Mentioned(m)
  \/ RepliedTo(m)
  \/ (IsDMChannel(m.channel) /\ allow_dm)
  \/ (IsGroupChannel(m.channel) /\ allow_gc)

\* the value is_trigger_message returns on tracker conv at time t
IsTriggerOn(m, conv, t) ==
  \/ ContentHasTrigger(m)
  \/ Mentioned(m)
  \/ RepliedTo(m)
  \/ (IsDMChannel(m.channel) /\ allow_dm)
  \/ (IsGroupChannel(m.channel) /\ allow_gc)
  \/ InConversationAt(m, conv, t)

\* a classifier that starts the tracker afresh when it returns true
TrackerKeepsOnlyCurrent(m, conv, t) ==
  IF IsTriggerOn(m, conv, t) THEN DictSet(EmptyDict, ConvKey(m), t) ELSE conv

\* a classifier that refreshes the tracker whatever it returns
TrackerAlwaysRefreshed(m, conv, t) == DictSet(conv, ConvKey(m), t)

\* the tracker is_trigger_message leaves behind
TrackerAfterOn(m, conv, t) ==
  IF IsTriggerOn(m, conv, t) THEN DictSet(conv, ConvKey(m), t) ELSE conv

IsTriggerMessage(m) == IsTriggerOn(m, active_conversations, now)
TrackerAfter(m) == TrackerAfterOn(m, active_conversations, now)

(***************************************************************************)
(* should_ignore_message and the owner exemption of on_message.            *)
(***************************************************************************)
ShouldIgnoreMessage(m) ==
  \/ m.author \in ignore_users
  \/ m.author = SELFBOT_ID
  \/ m.is_bot

(***************************************************************************)
(* Spam/cooldown governor, check_spam_and_cooldown.  The result is the     *)
(* verdict with the RateState it leaves.                                   *)
(***************************************************************************)
\* a governor that never drops a stamp
PruneNothing(stamps, t) == stamps

\* a window that forgets every stamp
PruneAll(stamps, t) == <<>>

RECURSIVE PruneWindow(_, _)
\* [ts for ts in stamps if current_time - ts < SPAM_TIME_WINDOW]
PruneWindow(stamps, t) ==
  IF stamps = <<>> THEN <<>>
  ELSE IF t - Head(stamps) < SPAM_TIME_WINDOW
       THEN <<Head(stamps)>> \o PruneWindow(Tail(stamps), t)
       ELSE PruneWindow(Tail(stamps), t)

OnCooldown(u, cooldowns, t) == u \in DOMAIN cooldowns /\ t < cooldowns[u]

\* a governor that trips when the count reaches the threshold (>= for >)
CheckSpamTripsEarly(u, counts, cooldowns, t) ==
  IF OnCooldown(u, cooldowns, t)
  THEN [ok |-> FALSE, verdict |-> "OnCooldown",
        remaining |-> cooldowns[u] - t,
        counts |-> counts, cooldowns |-> cooldowns]
  ELSE LET cd == DictDel(cooldowns, u)
           recent == Append(PruneWindow(DictGet(counts, u, <<>>), t), t)
       IN IF Len(recent) >= SPAM_MESSAGE_THRESHOLD
          THEN [ok |-> FALSE, verdict |-> "NewlyCooledDown",
                remaining |-> COOLDOWN_DURATION,
                counts |-> DictSet(counts, u, <<>>),
                cooldowns |-> DictSet(cd, u, t + COOLDOWN_DURATION)]
          ELSE [ok |-> TRUE, verdict |-> "Allowed", remaining |-> 0,
                counts |-> DictSet(counts, u, recent), cooldowns |-> cd]

\* a governor that keeps the stamps of a sender it puts on cooldown
CheckSpamKeepsStamps(u, counts, cooldowns, t) ==
  IF OnCooldown(u, cooldowns, t)
  THEN [ok |-> FALSE, verdict |-> "OnCooldown",
        remaining |-> cooldowns[u] - t,
        counts |-> counts, cooldowns |-> cooldowns]
  ELSE LET cd == DictDel(cooldowns, u)
           recent == Append(PruneWindow(DictGet(counts, u, <<>>), t), t)
       IN IF Len(recent) > SPAM_MESSAGE_THRESHOLD
          THEN [ok |-> FALSE, verdict |-> "NewlyCooledDown",
                remaining |-> COOLDOWN_DURATION,
                counts |-> DictSet(counts, u, recent),
                cooldowns |-> DictSet(cd, u, t + COOLDOWN_DURATION)]
          ELSE [ok |-> TRUE, verdict |-> "Allowed", remaining |-> 0,
                counts |-> DictSet(counts, u, recent), cooldowns |-> cd]

\* a governor that also rejects a message arriving at the instant of the
\* sender's previous one
CheckSpamRejectsBurst(u, counts, cooldowns, t) ==
  IF OnCooldown(u, cooldowns, t)
  THEN [ok |-> FALSE, verdict |-> "OnCooldown",
        remaining |-> cooldowns[u] - t,
        counts |-> counts, cooldowns |-> cooldowns]
  ELSE LET cd == DictDel(cooldowns, u)
           old == PruneWindow(DictGet(counts, u, <<>>), t)
           recent == Append(old, t)
       IN IF \/ Len(recent) > SPAM_MESSAGE_THRESHOLD
             \/ (Len(old) > 0 /\ old[Len(old)] = t)
          THEN [ok |-> FALSE, verdict |-> "NewlyCooledDown",
                remaining |-> COOLDOWN_DURATION,
                counts |-> DictSet(counts, u, <<>>),
                cooldowns |-> DictSet(cd, u, t + COOLDOWN_DURATION)]
          ELSE [ok |-> TRUE, verdict |-> "Allowed", remaining |-> 0,
                counts |-> DictSet(counts, u, recent), cooldowns |-> cd]

\* a governor that forgets the stamps of every sender when one sender trips
CheckSpamClearsAll(u, counts, cooldowns, t) ==
  IF OnCooldown(u, cooldowns, t)
  THEN [ok |-> FALSE, verdict |-> "OnCooldown",
        remaining |-> cooldowns[u] - t,
        counts |-> counts, cooldowns |-> cooldowns]
  ELSE LET cd == DictDel(cooldowns, u)
           recent == Append(PruneWindow(DictGet(counts, u, <<>>), t), t)
       IN IF Len(recent) > SPAM_MESSAGE_THRESHOLD
          THEN [ok |-> FALSE, verdict |-> "NewlyCooledDown",
                remaining |-> COOLDOWN_DURATION,
                counts |-> [v \in DOMAIN counts \cup {u} |-> <<>>],
                cooldowns |-> DictSet(cd, u, t + COOLDOWN_DURATION)]
          ELSE [ok |-> TRUE, verdict |-> "Allowed", remaining |-> 0,
                counts |-> DictSet(counts, u, recent), cooldowns |-> cd]

\* a governor that records the stamp of a check it rejects for a cooldown
CheckSpamCountsRejected(u, counts, cooldowns, t) ==
  IF OnCooldown(u, cooldowns, t)
  THEN [ok |-> FALSE, verdict |-> "OnCooldown",
        remaining |-> cooldowns[u] - t,
        counts |-> DictSet(counts, u, Append(DictGet(counts, u, <<>>), t)),
        cooldowns |-> cooldowns]
  ELSE LET cd == DictDel(cooldowns, u)
           recent == Append(PruneWindow(DictGet(counts, u, <<>>), t), t)
       IN IF Len(recent) > SPAM_MESSAGE_THRESHOLD
          THEN [ok |-> FALSE, verdict |-> "NewlyCooledDown",
                remaining |-> COOLDOWN_DURATION,
                counts |-> DictSet(counts, u, <<>>),
                cooldowns |-> DictSet(cd, u, t + COOLDOWN_DURATION)]
          ELSE [ok |-> TRUE, verdict |-> "Allowed", remaining |-> 0,
                counts |-> DictSet(counts, u, recent), cooldowns |-> cd]

CheckSpamAndCooldown(u, counts, cooldowns, t) ==
  IF OnCooldown(u, cooldowns, t)
  THEN [ok |-> FALSE, verdict |-> "OnCooldown",
        remaining |-> cooldowns[u] - t,
        counts |-> counts, cooldowns |-> cooldowns]
  ELSE LET cd == DictDel(cooldowns, u)
           recent == Append(PruneWindow(DictGet(counts, u, <<>>), t), t)
       IN IF Len(recent) > SPAM_MESSAGE_THRESHOLD
          THEN [ok |-> FALSE, verdict |-> "NewlyCooledDown",
                remaining |-> COOLDOWN_DURATION,
                counts |-> DictSet(counts, u, <<>>),
                cooldowns |-> DictSet(cd, u, t + COOLDOWN_DURATION)]
          ELSE [ok |-> TRUE, verdict |-> "Allowed", remaining |-> 0,
                counts |-> DictSet(counts, u, recent), cooldowns |-> cd]

(***************************************************************************)
(* History ring, analyze_human_style and update_message_history.           *)
(***************************************************************************)
CasualWords ==
  {<<"l","o","l">>, <<"f","r">>, <<"n","a","h">>, <<"y","e","a","h">>,
   <<"y","e","p">>, <<"n","o","p","e">>, <<"i","d","k">>, <<"t","b","h">>,
   <<"p","r","o","l","l","y">>, <<"g","o","n","n","a">>,
   <<"w","a","n","n","a">>}

Chars(s) == {s[i] : i \in 1..Len(s)}
\* str.islower / str.isupper: a cased character exists and all cased ones agree
IsLowerStr(s) ==
  Chars(s) \cap LowerLetters # {} /\ Chars(s) \cap UpperLetters = {}
IsUpperStr(s) ==
  Chars(s) \cap UpperLetters # {} /\ Chars(s) \cap LowerLetters = {}

AnalyzeHumanStyle(s) ==
  (IF Chars(s) \cap {".", "!", "?"} = {} THEN <<"no punctuation">> ELSE <<>>)
  \o (IF IsLowerStr(s) THEN <<"all lowercase">>
      ELSE IF IsUpperStr(s) THEN <<"all caps">> ELSE <<>>)
  \o (IF Len(s) <= 5 THEN <<"very short">>
      ELSE IF Len(s) <= 15 THEN <<"short">> ELSE <<>>)
  \o (IF \E w \in CasualWords : Contains(Lower(s), w)
      THEN <<"casual slang">> ELSE <<>>)

\* wipe_history: `del message_history[user.id]` for a named user that has a
\* history, message_history.clear() without a user
WipeHistory(hist, user) ==
  IF user = 0 THEN EmptyDict
  ELSE IF user \in DOMAIN hist THEN DictDel(hist, user) ELSE hist

\* the formatted entry "[BOT]: text" / "[USER [tags]]: text"
FormatEntry(text, is_bot_response) ==
  IF is_bot_response
  THEN [role |-> "BOT", style |-> <<>>, text |-> text]
  ELSE [role |-> "USER", style |-> AnalyzeHumanStyle(text), text |-> text]

\* a ring cut at the wrong end: list[:MAX_HISTORY]
RingKeepsOldest(ring, entry) == FirstN(Append(ring, entry), MAX_HISTORY)

\* the list update_message_history stores for the author
RingAfterAppend(ring, entry) == LastN(Append(ring, entry), MAX_HISTORY)

UpdateMessageHistory(hist, author, text, is_bot_response) ==
  DictSet(hist, author,
          RingAfterAppend(DictGet(hist, author, <<>>),
                          FormatEntry(text, is_bot_response)))

\* the list object the worker passes to the completion call: .get(author, [])
\* is the stored list itself when the key exists, and update_message_history
\* appends to that object in place before re-binding the key to a slice
HistoryArgument(hist, author, text) ==
  IF author \in DOMAIN hist
  THEN Append(hist[author], FormatEntry(text, FALSE))
  ELSE <<>>

(***************************************************************************)
(* Messages.                                                               *)
(***************************************************************************)
Msg(a, ch, text, ment, img) ==
  [id |-> 0, author |-> a, channel |-> ch, content |-> text,
   mentioned |-> ment, replied_to |-> FALSE, image |-> img, is_bot |-> FALSE,
   arg |-> 0]

NoMsg == Msg(0, "c1", <<>>, FALSE, None)

\* the messages the gateway may deliver in Spec
SpecInbound ==
  { Msg(1, "c1", T_hello, TRUE, None),
    Msg(1, "c1", T_how, TRUE, "img_how"),
    Msg(2, "c1", T_hello, TRUE, "img_two"),
    Msg(1, "c2", T_hey, FALSE, None) }

Texts(msgs) == [i \in 1..Len(msgs) |-> msgs[i].content]
Ids(msgs) == [i \in 1..Len(msgs) |-> msgs[i].id]

RECURSIVE JoinTexts(_)
\* " | ".join(texts)
JoinTexts(texts) ==
  IF texts = <<>> THEN <<>>
  ELSE IF Len(texts) = 1 THEN Head(texts)
  ELSE Head(texts) \o BatchSeparator \o JoinTexts(Tail(texts))

(***************************************************************************)
(* Reply text.  split_response is external: it returns 1 or more chunks.   *)
(***************************************************************************)
AllChunks == << <<"@","o","k">>, <<"s","u","r","e">>, <<"y","e","s">>,
                <<"b","y","e">>, <<"e","n","d">> >>
\* what split_response may return
SplitResponse(k) == SubSeq(AllChunks, 1, k)
ChunkCounts == {1, MAX_CHUNKS_SENT + ExtraChunks}

\* config["bot"]["disable_mentions"]
DISABLE_MENTIONS == TRUE
RECURSIVE EscapeMentions(_)
\* chunk.replace("@", "@" + zero-width space)
EscapeMentions(s) ==
  IF s = <<>> THEN <<>>
  ELSE IF Head(s) = "@" THEN <<"@", "ZWSP">> \o EscapeMentions(Tail(s))
  ELSE <<Head(s)>> \o EscapeMentions(Tail(s))

\* the chunk as sent; the reply chunks of the model hold no digit or number
\* word, which the anti-age-ban substitution would replace
FilterChunk(c) == IF DISABLE_MENTIONS THEN EscapeMentions(c) ELSE c

\* a reply that is sent whole
KeepAllChunks(chunks) == chunks

\* chunks[:3]
TruncateChunks(chunks) == FirstN(chunks, MAX_CHUNKS_SENT)

(***************************************************************************)
(* Worker tasks and the asyncio.Lock of a channel.                         *)
(***************************************************************************)
IdleTask ==
  [pc |-> "none", msg |-> NoMsg, prompt |-> <<>>, history |-> <<>>,
   image |-> None, chunks |-> <<>>, i |-> 0, took |-> <<>>, stale |-> <<>>,
   atWake |-> <<>>, calls |-> 0, botAdds |-> 0, sent |-> <<>>,
   typed |-> FALSE, whilePaused |-> FALSE]

NewLock == [locked |-> FALSE, waiters |-> <<>>]

\* a worker that enters the drain section without regard to the lock
LockNeverHeld(lk) == TRUE

\* one lock for all the channels: free when no channel is being drained
LockIsFreeEverywhere(lk) ==
  /\ ~lk.locked
  /\ lk.waiters = <<>>
  /\ \A c \in DOMAIN processing_locks : ~processing_locks[c].locked

\* Lock.acquire takes the lock at once: it is free and nobody is queued for it
LockIsFree(lk) == ~lk.locked /\ lk.waiters = <<>>

\* pcs at which a task is inside the drain section of process_message_queue
TurnPcs ==
  {"batch_wait", "typing", "generating", "sending", "report_send",
   "report_grr", "report_worker"}

\* the variables a worker step may change, as one value
Cur ==
  [q |-> message_queues, locks |-> processing_locks,
   batches |-> user_message_batches, hist |-> message_history,
   conv |-> active_conversations, tasks |-> tasks,
   lastTaken |-> lastTaken, crashed |-> crashed]

Apply(S) ==
  /\ message_queues' = S.q
  /\ processing_locks' = S.locks
  /\ user_message_batches' = S.batches
  /\ message_history' = S.hist
  /\ active_conversations' = S.conv
  /\ tasks' = S.tasks
  /\ lastTaken' = S.lastTaken
  /\ crashed' = S.crashed

\* Lock.release: unlock and wake the first waiter
Release(S, ch) ==
  LET lk == S.locks[ch]
      S1 == [S EXCEPT !.locks[ch].locked = FALSE]
  IN IF lk.waiters = <<>> THEN S1
     ELSE [S1 EXCEPT !.tasks[ch][Head(lk.waiters)].pc = "woken"]

\* the task leaves `async with`: the lock is released and the task is over
ExitWorker(S, ch, w) ==
  Release([S EXCEPT !.tasks[ch][w] = IdleTask], ch)

\* generate_response_and_reply up to its first await
StartReply(S, ch, w, fields) ==
  [S EXCEPT !.tasks[ch][w] =
     [fields EXCEPT !.pc = IF realistic_typing THEN "typing" ELSE "generating",
                    !.typed = realistic_typing]]

BatchKey(m, ch) == <<m.author, ch>>

\* the batch opened for the dequeued message: the one stored under the key
\* when there is one, a new one otherwise
OpenBatch(batches, m, ch) ==
  IF BatchKey(m, ch) \in DOMAIN batches
  THEN batches[BatchKey(m, ch)]
  ELSE [messages |-> <<>>, last_time |-> now, image_url |-> m.image]

\* a worker loop that batches whatever the setting
LoopHeadAlwaysBatches(S, ch, w) ==
  IF S.q[ch] = <<>> THEN ExitWorker(S, ch, w)
  ELSE
    LET m == Head(S.q[ch])
        S1 == [S EXCEPT !.q[ch] = Tail(@), !.lastTaken[ch] = m.id]
        t0 == [IdleTask EXCEPT !.msg = m, !.took = <<m>>,
                               !.whilePaused = paused]
        b0 == OpenBatch(S.batches, m, ch)
        b1 == [b0 EXCEPT !.messages = Append(@, m)]
    IN [S1 EXCEPT
          !.batches = DictSet(@, BatchKey(m, ch), b1),
          !.tasks[ch][w] =
             [t0 EXCEPT !.pc = "batch_wait", !.stale = b0.messages]]

\* `while queue:` of the worker: leave when the queue is empty, else pop the
\* head and run to the first await of its turn
LoopHead(S, ch, w) ==
  IF S.q[ch] = <<>> THEN ExitWorker(S, ch, w)
  ELSE
    LET m == Head(S.q[ch])
        S1 == [S EXCEPT !.q[ch] = Tail(@), !.lastTaken[ch] = m.id]
        t0 == [IdleTask EXCEPT !.msg = m, !.took = <<m>>,
                               !.whilePaused = paused]
    IN IF batch_messages
       THEN LET b0 == OpenBatch(S.batches, m, ch)
                b1 == [b0 EXCEPT !.messages = Append(@, m)]
            IN [S1 EXCEPT
                  !.batches = DictSet(@, BatchKey(m, ch), b1),
                  !.tasks[ch][w] =
                     [t0 EXCEPT !.pc = "batch_wait", !.stale = b0.messages]]
       ELSE StartReply(
              [S1 EXCEPT !.hist =
                 UpdateMessageHistory(@, m.author, m.content, FALSE)],
              ch, w,
              [t0 EXCEPT !.prompt = m.content,
                         !.history = HistoryArgument(S.hist, m.author, m.content),
                         !.image = m.image])

\* the turn is over: with cleanup the batch is deleted (lines 623-625); then
\* the loop condition is evaluated again
TurnEnd(S, ch, w, cleanup) ==
  LET key == BatchKey(S.tasks[ch][w].msg, ch)
  IN LoopHead([S EXCEPT !.batches = IF cleanup /\ batch_messages
                                    THEN DictDel(@, key) ELSE @],
              ch, w)

RECURSIVE CollectAnySender(_, _, _)
\* an aggregation loop that does not compare the sender of the queue head
CollectAnySender(queue, batch, author) ==
  IF queue = <<>> THEN [queue |-> queue, batch |-> batch, popped |-> <<>>]
  ELSE
    LET next == Head(queue)
    IN IF ~StartsWith(next.content, PREFIX)
       THEN LET msgs == IF next.content \in {batch.messages[k].content :
                                              k \in 1..Len(batch.messages)}
                        THEN batch.messages
                        ELSE Append(batch.messages, next)
                img == IF batch.image_url = None /\ next.image # None
                       THEN next.image ELSE batch.image_url
                r == CollectAnySender(Tail(queue),
                                      [batch EXCEPT !.messages = msgs,
                                                    !.image_url = img],
                                      author)
            IN [r EXCEPT !.popped = <<next>> \o @]
       ELSE [queue |-> queue, batch |-> batch, popped |-> <<>>]

RECURSIVE Collect(_, _, _)
\* the aggregation loop after the wait: [queue, batch, popped]
Collect(queue, batch, author) ==
  IF queue = <<>> THEN [queue |-> queue, batch |-> batch, popped |-> <<>>]
  ELSE
    LET next == Head(queue)
    IN IF next.author = author /\ ~StartsWith(next.content, PREFIX)
       THEN LET msgs == IF next.content \in {batch.messages[k].content :
                                              k \in 1..Len(batch.messages)}
                        THEN batch.messages
                        ELSE Append(batch.messages, next)
                img == IF batch.image_url = None /\ next.image # None
                       THEN next.image ELSE batch.image_url
                r == Collect(Tail(queue),
                             [batch EXCEPT !.messages = msgs,
                                           !.image_url = img],
                             author)
            IN [r EXCEPT !.popped = <<next>> \o @]
       ELSE [queue |-> queue, batch |-> batch, popped |-> <<>>]

(***************************************************************************)
(* on_message: the whole handler, from the ignore filter to the spawn of a *)
(* worker.  It has no await on the path of a non-command message, so it is *)
(* one step.  Commands run for the account itself only (self_bot=True).    *)
(***************************************************************************)
FreeSlots(ch) == {w \in Workers : tasks[ch][w].pc = "none"}
LowestFree(ch) == CHOOSE w \in FreeSlots(ch) : \A x \in FreeSlots(ch) : w <= x

\* deque.appendleft in place of deque.append
EnqueueAtHead(queue, m) == <<m>> \o queue

\* deque.append
Enqueue(queue, m) == Append(queue, m)

\* `if not processing_locks[channel_id].locked()`
SpawnNeeded(lk) == ~lk.locked

\* a test for the bare prefix in place of startswith
IsCommandExact(m) == m.content = PREFIX

\* `if message.content.startswith(PREFIX)`
IsCommand(m) == StartsWith(m.content, PREFIX)

\* an on_message that leaves the classifier out while the bot is paused
ClassifierRunsUnpaused(m) ==
  /\ ~(ShouldIgnoreMessage(m) /\ m.author # OWNER_ID)
  /\ ~IsCommand(m)
  /\ ~paused

\* is_trigger_message is called for every message that passes the filter
\* and is no command: it is the left operand of `or bot.state.paused`
ClassifierRuns(m) ==
  /\ ~(ShouldIgnoreMessage(m) /\ m.author # OWNER_ID)
  /\ ~IsCommand(m)

\* a channel check that holds every channel against the active set
ChannelActiveOnly(ch) == ch \in active_channels

\* the channel check of on_message: a guild channel must be active
ChannelAccepted(ch) ==
  \/ IsDMChannel(ch)
  \/ IsGroupChannel(ch)
  \/ ch \in active_channels

\* an on_message that consults the governor only for channels it answers in
GovernorAfterChannel(m, trig) == trig /\ ~paused /\ ChannelAccepted(m.channel)

\* an on_message that consults the governor also while the bot is paused
GovernorIgnoresPause(m, trig) == trig

\* check_spam_and_cooldown is called for a reply-worthy message unless the
\* bot is paused, before the channel is looked at
GovernorRuns(m, trig) == trig /\ ~paused

\* toggle_active for the channel of the command, the database call succeeding
\* (when it fails the set stays as it is)
ToggleActive(active, ch) ==
  IF ch \in active THEN active \ {ch} ELSE active \cup {ch}

\* on_message from its first line to its return
Arrive(m0) ==
  /\ LET m == [m0 EXCEPT !.id = arrivals + 1]
         ch == m.channel
         dropped == ShouldIgnoreMessage(m) /\ m.author # OWNER_ID
         isCommand == ~dropped /\ IsCommand(m)
         cmdRuns == isCommand /\ m.author = SELFBOT_ID
         classified == ClassifierRuns(m)
         trig == classified /\ IsTriggerMessage(m)
         governed == GovernorRuns(m, trig)
         g == CheckSpamAndCooldown(m.author, user_message_counts,
                                   user_cooldowns, now)
         allowed == governed /\ g.ok
         queued == allowed /\ ChannelAccepted(ch)
         lk == DictGet(processing_locks, ch, NewLock)
         spawn == queued /\ SpawnNeeded(lk)
     IN /\ spawn => FreeSlots(ch) # {}
        /\ arrivals' = arrivals + 1
        /\ paused' = IF cmdRuns /\ m.content = T_cmd_pause
                     THEN ~paused ELSE paused
        /\ message_history' = IF cmdRuns /\ m.content = T_cmd_wipe
                              THEN WipeHistory(message_history, m.arg)
                              ELSE message_history
        /\ active_conversations' =
             IF classified THEN TrackerAfter(m) ELSE active_conversations
        /\ user_message_counts' =
             IF governed THEN g.counts ELSE user_message_counts
        /\ user_cooldowns' = IF governed THEN g.cooldowns ELSE user_cooldowns
        /\ message_queues' =
             IF queued
             THEN DictSet(message_queues, ch,
                          Enqueue(DictGet(message_queues, ch, <<>>), m))
             ELSE message_queues
        /\ processing_locks' =
             IF queued THEN DictSet(processing_locks, ch, lk)
             ELSE processing_locks
        /\ tasks' = IF spawn
                    THEN [tasks EXCEPT ![ch][LowestFree(ch)].pc = "spawned"]
                    ELSE tasks
        /\ active_channels' = IF cmdRuns /\ m.content = T_cmd_toggle
                              THEN ToggleActive(active_channels, ch)
                              ELSE active_channels
        /\ UNCHANGED <<now, ignore_users, allow_dm, allow_gc,
                       hold_conversation, batch_messages, realistic_typing,
                       user_message_batches, lastTaken, crashed>>

\* the arrival of a message
OnMessage(m0) ==
  /\ arrivals < MaxMsgs
  /\ Arrive(m0)
  /\ UNCHANGED probe

(***************************************************************************)
(* process_message_queue, one action per stretch between two awaits.       *)
(***************************************************************************)
workerFrame ==
  <<now, configVars, user_message_counts, user_cooldowns, arrivals, probe>>

\* `async with processing_locks[channel_id]`: take the lock or queue for it
WorkerStart(ch, w) ==
  /\ tasks[ch][w].pc = "spawned"
  /\ LET lk == processing_locks[ch]
     IN IF LockIsFree(lk)
        THEN Apply(LoopHead([Cur EXCEPT !.locks[ch].locked = TRUE], ch, w))
        ELSE Apply([Cur EXCEPT !.locks[ch].waiters = Append(@, w),
                               !.tasks[ch][w].pc = "waiting"])
  /\ UNCHANGED workerFrame

\* the woken waiter leaves Lock.acquire holding the lock
WorkerWake(ch, w) ==
  /\ tasks[ch][w].pc = "woken"
  /\ Apply(LoopHead(
       [Cur EXCEPT !.locks[ch].locked = TRUE,
                   !.locks[ch].waiters = SelectSeqBy(@, Workers \ {w})],
       ch, w))
  /\ UNCHANGED workerFrame

\* asyncio.sleep(batch_wait_time) is over: aggregate, join, record, reply
BatchWaitDone(ch, w) ==
  /\ tasks[ch][w].pc = "batch_wait"
  /\ LET t == tasks[ch][w]
         m == t.msg
         key == BatchKey(m, ch)
         r == Collect(message_queues[ch], user_message_batches[key], m.author)
         combined == JoinTexts(Texts(r.batch.messages))
         S1 == [Cur EXCEPT
                  !.q[ch] = r.queue,
                  !.lastTaken[ch] = IF r.popped = <<>> THEN @
                                    ELSE r.popped[Len(r.popped)].id,
                  !.batches[key] = r.batch,
                  !.hist = UpdateMessageHistory(@, m.author, combined, FALSE)]
     IN Apply(StartReply(S1, ch, w,
                [t EXCEPT !.took = @ \o r.popped,
                          !.atWake = message_queues[ch],
                          !.prompt = combined,
                          !.history = HistoryArgument(message_history,
                                                      m.author, combined),
                          !.image = r.batch.image_url]))
  /\ UNCHANGED workerFrame

\* the typing simulation (its sleeps) is over
TypingDone(ch, w) ==
  /\ tasks[ch][w].pc = "typing"
  /\ tasks' = [tasks EXCEPT ![ch][w].pc = "generating"]
  /\ UNCHANGED <<workerFrame, message_history, message_queues,
                 processing_locks, user_message_batches, active_conversations,
                 lastTaken, crashed>>

\* webhook_log returns (TRUE) or raises (FALSE): it posts to a webhook
ReportOutcomes == BOOLEAN

\* an empty reply handled as a failure of the generation
EmptyReplyReported(S, ch, w) == [S EXCEPT !.tasks[ch][w].pc = "report_grr"]

\* an empty reply after which the prompt is taken out of the history again
EmptyReplyForgetsPrompt(S, ch, w) ==
  LET a == S.tasks[ch][w].msg.author
  IN TurnEnd([S EXCEPT !.hist[a] = SubSeq(@, 1, Len(@) - 1)], ch, w, TRUE)

\* `if not response: return`: the turn is over
EmptyReply(S, ch, w) == TurnEnd(S, ch, w, TRUE)

\* a failed send after which the loop goes on with the next chunk
SendFailedContinues(S, ch, w) ==
  IF S.tasks[ch][w].i < Len(S.tasks[ch][w].chunks)
  THEN [S EXCEPT !.tasks[ch][w].i = @ + 1]
  ELSE [S EXCEPT !.tasks[ch][w].pc = "report_send"]

\* the except clauses of the send: webhook_log is awaited, then `break`
SendFailed(S, ch, w) == [S EXCEPT !.tasks[ch][w].pc = "report_send"]

\* generate_response / generate_response_image returns or raises
GenOutcomes == {"empty", "raise", "text"}

GenerateDone(ch, w, outcome, k) ==
  /\ tasks[ch][w].pc = "generating"
  /\ LET S1 == [Cur EXCEPT !.tasks[ch][w].calls = @ + 1]
     IN IF outcome = "empty" THEN Apply(EmptyReply(S1, ch, w))
        ELSE IF outcome = "raise"
        THEN Apply([S1 EXCEPT !.tasks[ch][w].pc = "report_grr"])
        ELSE Apply([S1 EXCEPT
                      !.tasks[ch][w].pc = "sending",
                      !.tasks[ch][w].chunks =
                         TruncateChunks(SplitResponse(k)),
                      !.tasks[ch][w].i = 1])
  /\ UNCHANGED workerFrame

\* a reply loop that records every chunk it sends
RecordEveryChunk(hist, m, i, chunk) ==
  UpdateMessageHistory(hist, m.author, chunk, TRUE)

\* `if i == 0: update_message_history(..., is_bot_response=True)` after the
\* send of chunk i (counted from 1 here)
RecordBotReply(hist, m, i, chunk) ==
  IF i = 1 THEN UpdateMessageHistory(hist, m.author, chunk, TRUE) ELSE hist

\* a reply loop that leaves the tracker alone
ConversationNotRefreshed(conv, m, t) == conv

\* `active_conversations[conv_key] = time.time()` after a send, keyed by the
\* message generate_response_and_reply was called with
RefreshConversation(conv, m, t) == DictSet(conv, ConvKey(m), t)

\* the send of chunk i returns or raises (the delays before it included)
SendDone(ch, w, ok) ==
  /\ tasks[ch][w].pc = "sending"
  /\ LET t == tasks[ch][w]
         m == t.msg
         chunk == FilterChunk(t.chunks[t.i])
         S1 == [Cur EXCEPT
                  !.hist = RecordBotReply(@, m, t.i, chunk),
                  !.conv = RefreshConversation(@, m, now),
                  !.tasks[ch][w].botAdds = IF t.i = 1 THEN @ + 1 ELSE @,
                  !.tasks[ch][w].sent = Append(@, chunk)]
     IN IF ~ok THEN Apply(SendFailed(Cur, ch, w))
        ELSE IF t.i < Len(t.chunks)
        THEN Apply([S1 EXCEPT !.tasks[ch][w].i = @ + 1])
        ELSE Apply(TurnEnd(S1, ch, w, TRUE))
  /\ UNCHANGED workerFrame

\* webhook_log awaited in a handler returns or raises: the send handlers
\* (lines 499-510), the handler of generate_response_and_reply (514-516) and
\* the handler of the worker loop (635-637)
ReportDone(ch, w, ok) ==
  /\ tasks[ch][w].pc \in {"report_send", "report_grr", "report_worker"}
  /\ LET pc == tasks[ch][w].pc
     IN IF pc = "report_send"
        THEN IF ok THEN Apply(TurnEnd(Cur, ch, w, TRUE))
             ELSE Apply([Cur EXCEPT !.tasks[ch][w].pc = "report_grr"])
        ELSE IF pc = "report_grr"
        THEN IF ok THEN Apply(TurnEnd(Cur, ch, w, TRUE))
             ELSE Apply([Cur EXCEPT !.tasks[ch][w].pc = "report_worker"])
        ELSE IF ok THEN Apply(TurnEnd(Cur, ch, w, FALSE))
             ELSE Apply(ExitWorker([Cur EXCEPT !.crashed[ch] = TRUE], ch, w))
  /\ UNCHANGED workerFrame

(***************************************************************************)
(* The dispatcher specification.  Its behaviours run within one second of  *)
(* the clock; the components that compare timestamps have their own        *)
(* specifications below.                                                   *)
(***************************************************************************)
\* BotState.__init__ and the start of the clock; the configuration flags,
\* the ignore list and the history apart
InitState ==
  /\ now = 0
  /\ paused = FALSE
  /\ active_channels = GuildChannels
  /\ user_message_counts = EmptyDict
  /\ user_cooldowns = EmptyDict
  /\ message_queues = EmptyDict
  /\ processing_locks = EmptyDict
  /\ user_message_batches = EmptyDict
  /\ active_conversations = EmptyDict
  /\ tasks = [ch \in Channels |-> [w \in Workers |-> IdleTask]]
  /\ arrivals = 0
  /\ lastTaken = [ch \in Channels |-> 0]
  /\ crashed = [ch \in Channels |-> FALSE]

Init ==
  /\ InitState
  /\ ignore_users = {}
  /\ allow_dm = FALSE
  /\ allow_gc = FALSE
  /\ hold_conversation = TRUE
  /\ batch_messages \in BOOLEAN
  /\ realistic_typing \in BOOLEAN
  /\ message_history = EmptyDict
  /\ probe = None

Next ==
  \/ \E m \in SpecInbound : OnMessage(m)
  \/ \E ch \in Channels, w \in Workers : WorkerStart(ch, w)
  \/ \E ch \in Channels, w \in Workers : WorkerWake(ch, w)
  \/ \E ch \in Channels, w \in Workers : BatchWaitDone(ch, w)
  \/ \E ch \in Channels, w \in Workers : TypingDone(ch, w)
  \/ \E ch \in Channels, w \in Workers, o \in GenOutcomes, k \in ChunkCounts :
        GenerateDone(ch, w, o, k)
  \/ \E ch \in Channels, w \in Workers, ok \in BOOLEAN : SendDone(ch, w, ok)
  \/ \E ch \in Channels, w \in Workers, ok \in ReportOutcomes :
        ReportDone(ch, w, ok)

Spec == Init /\ [][Next]_vars

(***************************************************************************)
(* Properties of the dispatcher.                                           *)
(***************************************************************************)
WorkersIn(ch, pcs) == {w \in Workers : tasks[ch][w].pc \in pcs}

LockHeld(ch) == ch \in DOMAIN processing_locks /\ processing_locks[ch].locked

\* C1: in every channel at most one worker is inside the drain section, and
\* it holds the channel's lock; every other task of the channel is before
\* the lock (spawned, waiting or woken), so no message is taken for
\* processing while the turn of the previous one is still running.
MutualExclusion ==
  \A ch \in Channels :
    /\ Cardinality(WorkersIn(ch, TurnPcs)) <= 1
    /\ WorkersIn(ch, TurnPcs) # {} => LockHeld(ch)
    /\ \A w \in Workers :
         tasks[ch][w].pc \in {"spawned", "waiting", "woken"}
           => tasks[ch][w].took = <<>>

\* a worker is in the middle of a turn while a second worker of the same
\* channel is queued on the lock and a further message waits in the queue
MutualExclusionWitness ==
  \E ch \in Channels :
    /\ WorkersIn(ch, TurnPcs \ {"batch_wait"}) # {}
    /\ WorkersIn(ch, {"waiting"}) # {}
    /\ message_queues[ch] # <<>>

IsSuffix(s, q) == \E k \in 0..Len(q) : s = SubSeq(q, k + 1, Len(q))

StrictlyIncreasing(s) == \A i, j \in 1..Len(s) : i < j => s[i] < s[j]

\* C2: a step changes a channel queue only by appending one message at the
\* tail or by removing messages at the head; the queue holds its messages
\* in order of acceptance, all of them accepted after the last message taken,
\* and the messages a turn took are in order of acceptance too.
FifoOrder ==
  /\ [](\A ch \in DOMAIN message_queues :
          /\ StrictlyIncreasing(Ids(message_queues[ch]))
          /\ \A k \in 1..Len(message_queues[ch]) :
                message_queues[ch][k].id > lastTaken[ch]
          /\ \A w \in Workers :
                /\ StrictlyIncreasing(Ids(tasks[ch][w].took))
                /\ \A k \in 1..Len(tasks[ch][w].took) :
                      tasks[ch][w].took[k].id <= lastTaken[ch])
  /\ [][\A ch \in DOMAIN message_queues' :
          LET old == DictGet(message_queues, ch, <<>>)
              new == message_queues'[ch]
          IN \/ /\ IsSuffix(new, old)
                /\ lastTaken'[ch] =
                     IF new = old THEN lastTaken[ch]
                     ELSE old[Len(old) - Len(new)].id
             \/ /\ Len(new) = Len(old) + 1
                /\ SubSeq(new, 1, Len(old)) = old
                /\ new[Len(new)].id = arrivals'
                /\ lastTaken'[ch] = lastTaken[ch]]_vars

\* a turn is running on a message while a message of another sender, accepted
\* after it, is the head of the queue
FifoOrderWitness ==
  \E ch \in DOMAIN message_queues, w \in Workers :
    /\ tasks[ch][w].pc \in TurnPcs
    /\ message_queues[ch] # <<>>
    /\ message_queues[ch][1].author # tasks[ch][w].msg.author
    /\ message_queues[ch][1].id > tasks[ch][w].msg.id

\* C7: every channel has at most one task that has been spawned and has not
\* exited.
AtMostOneWorker ==
  \A ch \in Channels : Cardinality(Workers \ WorkersIn(ch, {"none"})) <= 1

\* C8: no worker is terminated by a failure of a turn.
NoWorkerKilled == \A ch \in Channels : ~crashed[ch]

\* C9: a channel whose queue is not empty has a worker that holds the lock or
\* has been spawned to take it.
NoStrandedQueue ==
  \A ch \in DOMAIN message_queues :
    message_queues[ch] # <<>> => Workers \ WorkersIn(ch, {"none"}) # {}

\* a queue is stranded only where a worker was terminated by a failed report
StrandedOnlyByKill ==
  \A ch \in DOMAIN message_queues :
    message_queues[ch] # <<>> /\ ~crashed[ch]
      => Workers \ WorkersIn(ch, {"none"}) # {}

\* pcs of a turn after the aggregation: the prompt of the turn is fixed
RepliedPcs == TurnPcs \ {"batch_wait"}

RECURSIVE SameSenderRun(_, _)
\* the messages at the head of q that are of the sender a and no command
SameSenderRun(q, a) ==
  IF q = <<>> \/ Head(q).author # a \/ StartsWith(Head(q).content, PREFIX)
  THEN <<>>
  ELSE <<Head(q)>> \o SameSenderRun(Tail(q), a)

RECURSIVE WithoutRepeats(_, _)
\* kept followed by the texts of rest that are not in it already
WithoutRepeats(kept, rest) ==
  IF rest = <<>> THEN kept
  ELSE IF \E k \in 1..Len(kept) : kept[k] = Head(rest)
  THEN WithoutRepeats(kept, Tail(rest))
  ELSE WithoutRepeats(Append(kept, Head(rest)), Tail(rest))

T_hello_how ==
  <<"h","e","l","l","o"," ","|"," ","h","o","w"," ","a","r","e"," ","y","o","u">>

\* C4 (as the code has it): with batching enabled a turn takes the dequeued
\* message and the messages of the same sender that stand directly behind it
\* in the queue when the wait ends (up to the first command or message of
\* another sender); it makes at most one completion call, with the prompt
\* that joins with " | ", in arrival order, the texts an earlier failed turn
\* left in the batch, the text of the dequeued message and every later text
\* that is not in the batch already; it appends one bot entry to the history,
\* when its first chunk is sent; "hello" then "how are you" gives
\* "hello | how are you".
BatchMerge ==
  \A ch \in Channels, w \in Workers :
    LET t == tasks[ch][w]
    IN batch_messages /\ t.pc \in RepliedPcs =>
         /\ t.took = <<t.msg>> \o SameSenderRun(t.atWake, t.msg.author)
         /\ t.prompt =
              JoinTexts(WithoutRepeats(Append(Texts(t.stale), t.msg.content),
                                       Texts(Tail(t.took))))
         /\ (t.stale = <<>> /\ Texts(t.took) = <<T_hello, T_how>>
               => t.prompt = T_hello_how)
         /\ t.calls = IF t.pc \in {"typing", "generating"} THEN 0 ELSE 1
         /\ t.botAdds = IF t.sent = <<>> THEN 0 ELSE 1

\* "hello" and "how are you" were merged into one turn, whose one completion
\* call was made and whose first chunk is sent
BatchMergeWitness ==
  \E ch \in Channels, w \in Workers :
    LET t == tasks[ch][w]
    IN /\ batch_messages
       /\ t.pc = "sending"
       /\ Texts(t.took) = <<T_hello, T_how>>
       /\ t.prompt = T_hello_how
       /\ t.calls = 1
       /\ t.botAdds = 1

\* C4 as stated: the prompt of a batched turn joins the texts of all the
\* messages the turn took.
BatchJoinsAllTexts ==
  \A ch \in Channels, w \in Workers :
    LET t == tasks[ch][w]
    IN batch_messages /\ t.pc \in RepliedPcs
         => t.prompt = JoinTexts(Texts(t.took))

(***************************************************************************)
(* The spam governor on its own: check_spam_and_cooldown called for any    *)
(* user at any time of a clock that advances between the calls.  probe     *)
(* records the last call and the state it found.                           *)
(***************************************************************************)
GovTickSteps == {1, SPAM_TIME_WINDOW - 1, COOLDOWN_DURATION - SPAM_TIME_WINDOW}

dispatcherVars ==
  <<message_queues, processing_locks, user_message_batches, tasks, arrivals,
    lastTaken, crashed>>

InitGov ==
  /\ InitState
  /\ ignore_users = {}
  /\ allow_dm = FALSE
  /\ allow_gc = FALSE
  /\ hold_conversation = TRUE
  /\ batch_messages = TRUE
  /\ realistic_typing = TRUE
  /\ message_history = EmptyDict
  /\ probe = [op |-> "init", user |-> 0, at |-> 0, ok |-> TRUE,
              verdict |-> "Allowed", remaining |-> 0, stamps |-> <<>>,
              cooldown |-> -1, n |-> [u \in Users |-> 0], checks |-> 0,
              ticks |-> 0, preCounts |-> EmptyDict, preCooldowns |-> EmptyDict,
              allowed |-> [u \in Users |-> <<>>]]

\* the times of the allowed checks of a sender that lie less than
\* SPAM_TIME_WINDOW before the sender's latest check at t, kept apart from
\* the governor's own list
AllowedLog(log, t, ok) ==
  LET kept == SelectSeqBy(log, {x \in 0..t : t - x < SPAM_TIME_WINDOW})
  IN IF ok THEN Append(kept, t) ELSE kept

GovCheck(u) ==
  /\ probe.checks < GovMaxChecks
  /\ LET r == CheckSpamAndCooldown(u, user_message_counts, user_cooldowns, now)
     IN /\ user_message_counts' = r.counts
        /\ user_cooldowns' = r.cooldowns
        /\ probe' = [probe EXCEPT
                       !.op = "check", !.user = u, !.at = now, !.ok = r.ok,
                       !.verdict = r.verdict, !.remaining = r.remaining,
                       !.stamps = DictGet(user_message_counts, u, <<>>),
                       !.cooldown = DictGet(user_cooldowns, u, -1),
                       !.n[u] = @ + 1, !.checks = @ + 1,
                       !.preCounts = user_message_counts,
                       !.preCooldowns = user_cooldowns,
                       !.allowed[u] = AllowedLog(@, now, r.ok)]
  /\ UNCHANGED <<now, configVars, message_history, active_conversations,
                 dispatcherVars>>

GovTick(d) ==
  /\ probe.ticks < GovMaxTicks
  /\ now' = now + d
  /\ probe' = [probe EXCEPT !.op = "tick", !.ticks = @ + 1]
  /\ UNCHANGED <<configVars, message_history, user_message_counts,
                 user_cooldowns, active_conversations, dispatcherVars>>

NextGov ==
  \/ \E u \in Users : GovCheck(u)
  \/ \E d \in GovTickSteps : GovTick(d)

SpecGov == InitGov /\ [][NextGov]_vars

\* the number of the stamps that are less than SPAM_TIME_WINDOW before t
InWindow(stamps, t) ==
  Cardinality({k \in 1..Len(stamps) : t - stamps[k] < SPAM_TIME_WINDOW})

\* C3: a check of a sender who is not on cooldown that finds
\* SPAM_MESSAGE_THRESHOLD or more of the sender's stamps within the window
\* is rejected, registers a cooldown that ends COOLDOWN_DURATION after the
\* check and clears the stamps; of the checks of one sender in the first
\* 5 seconds the first five are allowed and the sixth is rejected with a
\* cooldown registered.
SpamThreshold ==
  probe.op = "check" =>
    LET u == probe.user
        cooling == probe.cooldown # -1 /\ probe.at < probe.cooldown
    IN /\ (~cooling /\ InWindow(probe.stamps, probe.at) + 1
                          > SPAM_MESSAGE_THRESHOLD)
            => /\ ~probe.ok
               /\ u \in DOMAIN user_cooldowns
               /\ user_cooldowns[u] = probe.at + COOLDOWN_DURATION
               /\ user_message_counts[u] = <<>>
       /\ (probe.at <= 5 /\ probe.n[u] <= 5) => probe.ok
       /\ (probe.at <= 5 /\ probe.n[u] = 6)
            => /\ ~probe.ok
               /\ u \in DOMAIN user_cooldowns
               /\ user_cooldowns[u] = probe.at + COOLDOWN_DURATION

\* the sixth check of a sender within 5 seconds has just been rejected
SpamThresholdWitness ==
  /\ probe.op = "check"
  /\ probe.at > 0
  /\ probe.at <= 5
  /\ probe.n[probe.user] = 6
  /\ ~probe.ok
  /\ probe.verdict = "NewlyCooledDown"
  /\ Len(probe.stamps) = SPAM_MESSAGE_THRESHOLD

(***************************************************************************)
(* The trigger classifier on its own: is_trigger_message called on any     *)
(* message, the refresh of the tracker by a reply sent (line 497) and a    *)
(* clock that advances.  probe records the last call, the tracker it found *)
(* and the result of the call before it.                                   *)
(***************************************************************************)
TrigTickSteps == {1, CONVERSATION_TIMEOUT - 1}

Reply(m) == [m EXCEPT !.replied_to = TRUE]

TrigInbound ==
  { Msg(1, "c1", T_hi, FALSE, None),
    Msg(1, "c1", T_heyyy, FALSE, None),
    Msg(1, "c1", T_hey_there, FALSE, None),
    Msg(1, "c1", T_HEY, FALSE, None),
    Msg(1, "c1", T_hi, TRUE, None),
    Msg(1, "c1", T_everyone, TRUE, None),
    Reply(Msg(1, "c1", T_hi, FALSE, None)),
    Msg(2, "c1", T_hi, FALSE, None),
    Msg(1, "c2", T_hi, FALSE, None),
    Msg(1, "d1", T_hi, FALSE, None),
    Msg(1, "g1", T_hi, FALSE, None) }

\* the messages whose reply may be sent between two classifications
TrigReplied == {Msg(1, "c1", T_hi, FALSE, None), Msg(1, "d1", T_hi, FALSE, None)}

InitTrig ==
  /\ InitState
  /\ ignore_users = {}
  /\ allow_dm \in BOOLEAN
  /\ allow_gc \in BOOLEAN
  /\ hold_conversation \in BOOLEAN
  /\ batch_messages = TRUE
  /\ realistic_typing = TRUE
  /\ message_history = EmptyDict
  /\ probe = [op |-> "init", msg |-> NoMsg, at |-> 0, result |-> FALSE,
              before |-> EmptyDict, prevOp |-> "init", prevMsg |-> NoMsg,
              prevAt |-> 0, prevResult |-> FALSE, steps |-> 0]

trigFrame ==
  <<configVars, message_history, user_message_counts, user_cooldowns,
    dispatcherVars>>

Classify(m) ==
  /\ probe.steps < TrigMaxSteps
  /\ active_conversations' = TrackerAfter(m)
  /\ probe' = [op |-> "classify", msg |-> m, at |-> now,
               result |-> IsTriggerMessage(m),
               before |-> active_conversations,
               prevOp |-> probe.op, prevMsg |-> probe.msg,
               prevAt |-> probe.at, prevResult |-> probe.result,
               steps |-> probe.steps + 1]
  /\ UNCHANGED <<now, trigFrame>>

\* generate_response_and_reply stamps the tracker after a chunk is sent
ReplySent(m) ==
  /\ probe.steps < TrigMaxSteps
  /\ active_conversations' = DictSet(active_conversations, ConvKey(m), now)
  /\ probe' = [probe EXCEPT !.op = "write", !.steps = @ + 1]
  /\ UNCHANGED <<now, trigFrame>>

TrigTick(d) ==
  /\ probe.steps < TrigMaxSteps
  /\ now' = now + d
  /\ probe' = [probe EXCEPT !.op = "tick", !.steps = @ + 1]
  /\ UNCHANGED <<active_conversations, trigFrame>>

NextTrig ==
  \/ \E m \in TrigInbound : Classify(m)
  \/ \E m \in TrigReplied : ReplySent(m)
  \/ \E d \in TrigTickSteps : TrigTick(d)

SpecTrig == InitTrig /\ [][NextTrig]_vars

\* texts without a trigger word ("heyyy" is no occurrence of the word "hey")
PlainTexts == {T_hi, T_heyyy}

\* m has no trigger word, no mention of the account and is no reply to it
IsPlain(m) ==
  m.content \in PlainTexts /\ ~m.mentioned /\ ~m.replied_to

\* the tracker conv has an entry of (sender, channel) of m younger than
\* CONVERSATION_TIMEOUT at time t
LiveEntry(m, conv, t) ==
  \E key \in DOMAIN conv :
    /\ key = <<m.author, m.channel>>
    /\ t - conv[key] < CONVERSATION_TIMEOUT

\* C6: a message without trigger word, mention or reply that is classified
\* while the entry of its sender and channel is live and holding is enabled
\* is classified as reply-worthy.
LiveConversationTriggers ==
  (/\ probe.op = "classify"
   /\ IsPlain(probe.msg)
   /\ hold_conversation
   /\ LiveEntry(probe.msg, probe.before, probe.at)) => probe.result

\* a plain message in a guild channel was classified reply-worthy on an
\* entry made earlier, some time before
LiveConversationWitness ==
  /\ probe.op = "classify"
  /\ IsPlain(probe.msg)
  /\ probe.msg.channel \in GuildChannels
  /\ hold_conversation
  /\ LiveEntry(probe.msg, probe.before, probe.at)
  /\ probe.at - probe.before[<<probe.msg.author, probe.msg.channel>>] > 0
  /\ probe.result

\* C10: two calls of the classifier on the same message at the same time,
\* with nothing in between, return the same result.
ClassifierIdempotent ==
  (/\ probe.op = "classify"
   /\ probe.prevOp = "classify"
   /\ probe.prevMsg = probe.msg
   /\ probe.prevAt = probe.at) => probe.result = probe.prevResult

\* the second of two such calls follows a first call that made or refreshed
\* the entry of the message
ClassifierIdempotentWitness ==
  /\ probe.op = "classify"
  /\ probe.prevOp = "classify"
  /\ probe.prevMsg = probe.msg
  /\ probe.prevAt = probe.at
  /\ probe.prevResult
  /\ probe.result
  /\ probe.at > 0
  /\ <<probe.msg.author, probe.msg.channel>> \in DOMAIN probe.before
  /\ probe.before[<<probe.msg.author, probe.msg.channel>>] = probe.at

(***************************************************************************)
(* The history ring on its own: update_message_history called by the       *)
(* workers of any channel for any sender, and the wipe command, on rings   *)
(* that are empty, one short of full or full.  probe keeps for every       *)
(* sender the entries appended since the sender's history was last wiped.  *)
(***************************************************************************)
HistTexts == {T_hi, T_HEY, T_hey_there}

OldEntry == FormatEntry(T_hello, FALSE)

\* a ring of n entries appended before
OldRing(n) == [k \in 1..n |-> OldEntry]

HistInitLens == {0, MAX_HISTORY - 1, MAX_HISTORY}

\* the history in which every user u has a ring of lens[u] entries
OldHistory(lens) ==
  [u \in {v \in Users : lens[v] > 0} |-> OldRing(lens[u])]

InitHist ==
  /\ InitState
  /\ ignore_users = {}
  /\ allow_dm = FALSE
  /\ allow_gc = FALSE
  /\ hold_conversation = TRUE
  /\ batch_messages = TRUE
  /\ realistic_typing = TRUE
  /\ \E lens \in [Users -> HistInitLens] :
       /\ message_history = OldHistory(lens)
       /\ probe = [op |-> "init", log |-> [u \in Users |-> OldRing(lens[u])],
                   appends |-> 0, wipes |-> 0]

histFrame ==
  <<now, configVars, user_message_counts, user_cooldowns,
    active_conversations, dispatcherVars>>

HistAppend(u, text, is_bot_response) ==
  /\ probe.appends < HistMaxAppends
  /\ message_history' =
       UpdateMessageHistory(message_history, u, text, is_bot_response)
  /\ probe' = [probe EXCEPT
                 !.op = "append",
                 !.log[u] = Append(@, FormatEntry(text, is_bot_response)),
                 !.appends = @ + 1]
  /\ UNCHANGED histFrame

\* ~wipe @user (target a user) and ~wipe (target 0)
HistWipe(target) ==
  /\ probe.wipes < HistMaxAppends
  /\ message_history' = WipeHistory(message_history, target)
  /\ probe' = [probe EXCEPT
                 !.op = "wipe",
                 !.log = [u \in Users |->
                            IF target \in {0, u} THEN <<>> ELSE @[u]],
                 !.wipes = @ + 1]
  /\ UNCHANGED histFrame

NextHist ==
  \/ \E u \in Users, text \in HistTexts, b \in BOOLEAN : HistAppend(u, text, b)
  \/ \E target \in Users \cup {0} : HistWipe(target)

SpecHist == InitHist /\ [][NextHist]_vars

\* C5: the ring of every sender has at most MAX_HISTORY entries, and they
\* are the last entries appended for the sender since the last wipe of the
\* sender's history, in the order of their appends.
HistoryCap ==
  \A u \in Users :
    LET ring == DictGet(message_history, u, <<>>)
        log == probe.log[u]
        kept == IF Len(log) > MAX_HISTORY THEN MAX_HISTORY ELSE Len(log)
    IN /\ Len(ring) <= MAX_HISTORY
       /\ Len(ring) = kept
       /\ \A k \in 1..kept : ring[k] = log[Len(log) - kept + k]

\* after a wipe, appends of a user and of the bot pushed the oldest entries
\* out of a full ring
HistoryCapWitness ==
  \E u \in Users :
    /\ probe.wipes > 0
    /\ Len(probe.log[u]) > MAX_HISTORY + 1
    /\ Len(message_history[u]) = MAX_HISTORY
    /\ message_history[u][MAX_HISTORY].role = "BOT"
    /\ message_history[u][MAX_HISTORY - 1].role = "USER"
    /\ message_history[u][MAX_HISTORY - 1] # OldEntry

\* the classification recorded in probe had no condition to go by but the
\* text: no mention, no reply, a guild channel, no live entry that counts
TextOnly ==
  /\ probe.op = "classify"
  /\ ~probe.msg.mentioned
  /\ ~probe.msg.replied_to
  /\ probe.msg.channel \in GuildChannels
  /\ ~(hold_conversation /\ LiveEntry(probe.msg, probe.before, probe.at))

\* C11: with the trigger word "hey" and every other condition false, the
\* text "heyyy" is not reply-worthy, the texts "hey there" and "HEY" are,
\* and a text without the letters "hey" is not.
WholeWordTrigger ==
  TextOnly =>
    /\ probe.msg.content = T_heyyy => ~probe.result
    /\ probe.msg.content \in {T_hey_there, T_HEY} => probe.result
    /\ probe.msg.content = T_hi => ~probe.result

\* "heyyy" was classified as not reply-worthy right after "hey there" was
\* classified as reply-worthy, with holding disabled
WholeWordTriggerWitness ==
  /\ TextOnly
  /\ probe.msg.content = T_heyyy
  /\ ~probe.result
  /\ probe.prevOp = "classify"
  /\ probe.prevMsg.content = T_hey_there
  /\ probe.prevMsg.channel = probe.msg.channel
  /\ probe.prevResult

\* the check recorded in probe found the sender on a cooldown not yet over
CheckedOnCooldown ==
  /\ probe.op = "check"
  /\ probe.user \in DOMAIN probe.preCooldowns
  /\ probe.at < probe.preCooldowns[probe.user]

\* C12: a check of a sender whose cooldown is not over is rejected with the
\* seconds that remain and leaves the stamps and the cooldown of the sender
\* as they were.
CooldownRejects ==
  CheckedOnCooldown =>
    /\ ~probe.ok
    /\ probe.verdict = "OnCooldown"
    /\ probe.remaining = probe.preCooldowns[probe.user] - probe.at
    /\ probe.remaining > 0
    /\ user_cooldowns = probe.preCooldowns
    /\ user_message_counts = probe.preCounts

\* a second check in the middle of a cooldown, some seconds after the first
\* rejection, rejected with fewer seconds remaining
CooldownRejectsWitness ==
  /\ CheckedOnCooldown
  /\ probe.at > probe.preCooldowns[probe.user] - COOLDOWN_DURATION
  /\ probe.remaining < COOLDOWN_DURATION
  /\ probe.n[probe.user] > SPAM_MESSAGE_THRESHOLD + 1

\* the dicts d and e agree on every key but u
SameButFor(d, e, u) ==
  /\ DOMAIN d \ {u} = DOMAIN e \ {u}
  /\ \A v \in DOMAIN d \ {u} : d[v] = e[v]

\* C19: a check leaves the stamps and the cooldown of every sender but the
\* checked one as they were, and its step changes no queue, lock, batch,
\* history, conversation entry or task.
GovernorFrame ==
  /\ [](probe.op = "check" =>
          /\ SameButFor(probe.preCounts, user_message_counts, probe.user)
          /\ SameButFor(probe.preCooldowns, user_cooldowns, probe.user))
  /\ [][probe'.checks # probe.checks =>
          UNCHANGED <<message_queues, processing_locks, user_message_batches,
                      message_history, active_conversations, tasks>>]_vars

\* a sender has just been put on cooldown while the other sender has a
\* stamp on record
GovernorFrameWitness ==
  /\ probe.op = "check"
  /\ probe.verdict = "NewlyCooledDown"
  /\ \E v \in Users \ {probe.user} :
       /\ v \in DOMAIN user_message_counts
       /\ user_message_counts[v] # <<>>
       /\ v \notin DOMAIN user_cooldowns

\* the stamps s are in the order of their arrival
InArrivalOrder(s) == \A i, j \in 1..Len(s) : i < j => s[i] <= s[j]

\* the stamps of s that are less than SPAM_TIME_WINDOW before t, in order
RECURSIVE Recent(_, _)
Recent(s, t) ==
  IF s = <<>> THEN <<>>
  ELSE LET rest == Recent(SubSeq(s, 1, Len(s) - 1), t)
       IN IF t - s[Len(s)] < SPAM_TIME_WINDOW
          THEN Append(rest, s[Len(s)]) ELSE rest

\* C20: after a check that was not rejected for a cooldown the stamps kept
\* for the sender are all less than SPAM_TIME_WINDOW old and in arrival
\* order: after an allowed check they are the stamps that were within the
\* window followed by the stamp of the check, after a rejection none.
WindowPruned ==
  (probe.op = "check" /\ ~CheckedOnCooldown) =>
    LET kept == user_message_counts[probe.user]
    IN /\ \A k \in 1..Len(kept) : probe.at - kept[k] < SPAM_TIME_WINDOW
       /\ InArrivalOrder(kept)
       /\ kept = IF probe.ok
                 THEN Append(Recent(probe.stamps, probe.at), probe.at)
                 ELSE <<>>

\* an allowed check dropped stamps that had left the window and kept others
WindowPrunedWitness ==
  /\ probe.op = "check"
  /\ probe.ok
  /\ Len(user_message_counts[probe.user]) > 1
  /\ Len(user_message_counts[probe.user]) < Len(probe.stamps) + 1
  /\ \E k \in 1..Len(probe.stamps) :
       probe.at - probe.stamps[k] = SPAM_TIME_WINDOW

ReportPcs == {"report_send", "report_grr", "report_worker"}

\* the BOT entries of all the rings of hist
BotEntries(hist) ==
  {<<u, k>> \in (DOMAIN hist) \X (1..(MAX_HISTORY + 1)) :
     k <= Len(hist[u]) /\ hist[u][k].role = "BOT"}

\* C15: a task that is sending chunk i either has the chunk sent and goes on
\* (to chunk i+1, or out of the turn after the last chunk), or has the send
\* fail and goes to the report of the failure with the chunks sent, the
\* histories and the conversation entries as they were; from the report the
\* task never comes back to a send.
SendFailureAborts ==
  [][\A ch \in Channels, w \in Workers :
       LET t == tasks[ch][w]
           n == tasks'[ch][w]
       IN /\ (t.pc = "sending" /\ n # t) =>
               \/ /\ n.pc = "report_send"
                  /\ n.sent = t.sent
                  /\ n.i = t.i
                  /\ n.botAdds = t.botAdds
                  /\ message_history' = message_history
                  /\ active_conversations' = active_conversations
               \/ /\ n.pc = "sending"
                  /\ n.i = t.i + 1
                  /\ n.sent = Append(t.sent, FilterChunk(t.chunks[t.i]))
               \/ /\ t.i = Len(t.chunks)
                  /\ n.pc # "sending"
                  /\ n.sent = <<>>
                  /\ BotEntries(message_history') # {}
          /\ (t.pc \in ReportPcs /\ n # t) => n.pc # "sending"]_vars

\* the send of the second chunk has failed: the turn is at the report, with
\* the first chunk sent and its bot entry in the history
SendFailureWitness ==
  \E ch \in Channels, w \in Workers :
    LET t == tasks[ch][w]
    IN /\ t.pc = "report_send"
       /\ t.i = 2
       /\ Len(t.sent) = 1
       /\ t.botAdds = 1
       /\ \E e \in BotEntries(message_history) : e[1] = t.msg.author
       /\ ConvKey(t.msg) \in DOMAIN active_conversations

ChunksBounded ==
  \A ch \in Channels, w \in Workers :
    LET t == tasks[ch][w]
    IN /\ Len(t.sent) <= MAX_CHUNKS_SENT
       /\ t.pc = "sending" =>
            /\ t.i <= MAX_CHUNKS_SENT
            /\ Len(t.chunks) <= MAX_CHUNKS_SENT
            /\ t.chunks[t.i] = AllChunks[t.i]
            /\ Len(t.sent) = t.i - 1
            /\ \A k \in 1..Len(t.sent) : t.sent[k] = FilterChunk(AllChunks[k])

\* of a reply split into more than MAX_CHUNKS_SENT chunks the last chunk
\* kept is being sent
ChunksBoundedWitness ==
  \E ch \in Channels, w \in Workers :
    LET t == tasks[ch][w]
    IN /\ t.pc = "sending"
       /\ t.i = MAX_CHUNKS_SENT
       /\ Len(t.sent) = MAX_CHUNKS_SENT - 1
       /\ Len(t.chunks) = MAX_CHUNKS_SENT
       /\ t.chunks # SplitResponse(MAX_CHUNKS_SENT + ExtraChunks)

\* the channels whose queue, lock or tasks a step changes
ChannelsChanged ==
  {ch \in Channels :
     \/ tasks'[ch] # tasks[ch]
     \/ DictGet(message_queues', ch, <<>>) # DictGet(message_queues, ch, <<>>)
     \/ DictGet(processing_locks', ch, NewLock)
          # DictGet(processing_locks, ch, NewLock)
     \/ lastTaken'[ch] # lastTaken[ch]}

\* C14: a worker waits for the lock of its own channel only, and only while
\* another worker of that channel holds it or has been woken to take it; a
\* worker that starts while the lock of its channel is free takes the head
\* of its queue at once, whatever the workers of the other channels are
\* doing; and a step changes the queue, lock and tasks of one channel at
\* most.
ChannelsIndependent ==
  /\ [](\A ch \in Channels :
          /\ WorkersIn(ch, {"waiting"}) # {}
               => LockHeld(ch) \/ WorkersIn(ch, {"woken"}) # {}
          /\ ch \in DOMAIN processing_locks =>
               \A k \in 1..Len(processing_locks[ch].waiters) :
                  tasks[ch][processing_locks[ch].waiters[k]].pc
                     \in {"waiting", "woken"})
  /\ [][/\ Cardinality(ChannelsChanged) <= 1
        /\ \A ch \in Channels, w \in Workers :
             (/\ tasks[ch][w].pc = "spawned"
              /\ tasks'[ch][w] # tasks[ch][w]
              /\ ~processing_locks[ch].locked
              /\ processing_locks[ch].waiters = <<>>
              /\ message_queues[ch] # <<>>)
               => /\ tasks'[ch][w].pc \in TurnPcs
                  /\ tasks'[ch][w].msg = Head(message_queues[ch])]_vars

\* the worker of one channel is still in the turn of the first message while
\* the second message, of another channel, has been taken, replied to and
\* its turn is over
ChannelsIndependentWitness ==
  \E a, b \in Channels, w \in Workers :
    /\ a # b
    /\ tasks[a][w].pc \in TurnPcs \ {"batch_wait"}
    /\ tasks[a][w].msg.id = 1
    /\ tasks[a][w].sent # <<>>
    /\ lastTaken[b] = 2
    /\ WorkersIn(b, {"none"}) = Workers
    /\ ~crashed[b]
    /\ Cardinality(BotEntries(message_history)) = 2

(***************************************************************************)
(* The dispatcher with the messages the ignore filter and the command      *)
(* routing are about: messages of the account itself, of an ignored user,  *)
(* of a bot account, and commands.                                         *)
(***************************************************************************)
IgnoredUser == 2

BotAccount == 3

GateInbound ==
  { Msg(1, "c1", T_hey_there, FALSE, None),
    Msg(SELFBOT_ID, "c1", T_hey_there, FALSE, None),
    Msg(IgnoredUser, "c1", T_hey_there, TRUE, None),
    [Msg(BotAccount, "c1", T_hey_there, TRUE, None) EXCEPT !.is_bot = TRUE],
    Msg(1, "c1", T_cmd_pause, TRUE, None),
    Msg(SELFBOT_ID, "c1", T_cmd_pause, FALSE, None) }

InitGate ==
  /\ InitState
  /\ ignore_users = {IgnoredUser}
  /\ allow_dm = FALSE
  /\ allow_gc = FALSE
  /\ hold_conversation = TRUE
  /\ batch_messages \in BOOLEAN
  /\ realistic_typing = TRUE
  /\ message_history = EmptyDict
  /\ probe = None

NextGate ==
  \/ \E m \in GateInbound : OnMessage(m)
  \/ \E ch \in Channels, w \in Workers : WorkerStart(ch, w)
  \/ \E ch \in Channels, w \in Workers : WorkerWake(ch, w)
  \/ \E ch \in Channels, w \in Workers : BatchWaitDone(ch, w)
  \/ \E ch \in Channels, w \in Workers : TypingDone(ch, w)
  \/ \E ch \in Channels, w \in Workers, o \in GenOutcomes :
        GenerateDone(ch, w, o, 1)
  \/ \E ch \in Channels, w \in Workers, ok \in BOOLEAN : SendDone(ch, w, ok)
  \/ \E ch \in Channels, w \in Workers, ok \in ReportOutcomes :
        ReportDone(ch, w, ok)

SpecGate == InitGate /\ [][NextGate]_vars

\* the senders with a message in a queue, in a turn or in a batch, with a
\* conversation entry or with stamps or a cooldown of the governor
SendersWithTrace ==
  UNION {{message_queues[ch][k].author : k \in 1..Len(message_queues[ch])} :
           ch \in DOMAIN message_queues}
  \cup UNION {{tasks[ch][w].took[k].author : k \in 1..Len(tasks[ch][w].took)} :
                ch \in Channels, w \in Workers}
  \cup {key[1] : key \in DOMAIN user_message_batches}
  \cup {key[1] : key \in DOMAIN active_conversations}
  \cup DOMAIN user_message_counts
  \cup DOMAIN user_cooldowns
  \cup DOMAIN message_history

\* C13: no message of the account itself, of an ignored user or of a bot
\* account is classified, checked by the governor or queued: such a sender
\* has no message in a queue, turn or batch, no conversation entry, no stamp
\* and no history.
FilteredLeaveNoTrace ==
  SendersWithTrace \cap ({SELFBOT_ID, BotAccount} \cup ignore_users) = {}

\* the filter does hold for the ignored users and the bot accounts that are
\* not the owner
OthersFiltered ==
  SendersWithTrace \cap (({BotAccount} \cup ignore_users) \ {OWNER_ID}) = {}

CommandTexts == {T_cmd_pause, T_cmd_wipe, T_cmd_toggle}

\* C18: no command is in a queue, in a turn or in a batch, and the arrival
\* of a command changes no conversation entry, no stamp or cooldown of the
\* governor, no queue, batch or task.
CommandsNeverQueued ==
  /\ [](/\ \A ch \in DOMAIN message_queues :
             \A k \in 1..Len(message_queues[ch]) :
                message_queues[ch][k].content \notin CommandTexts
        /\ \A ch \in Channels, w \in Workers :
             \A k \in 1..Len(tasks[ch][w].took) :
                tasks[ch][w].took[k].content \notin CommandTexts
        /\ \A key \in DOMAIN user_message_batches :
             \A k \in 1..Len(user_message_batches[key].messages) :
                user_message_batches[key].messages[k].content
                   \notin CommandTexts)
  /\ [][\A m \in GateInbound :
          (m.content \in CommandTexts /\ OnMessage(m)) =>
             UNCHANGED <<active_conversations, user_message_counts,
                         user_cooldowns, message_queues, processing_locks,
                         user_message_batches, tasks>>]_vars

\* a command of the account arrived while the worker was waiting for the
\* rest of a burst: it was run (the bot is paused) and is in no queue
CommandsNeverQueuedWitness ==
  /\ paused
  /\ arrivals = 2
  /\ \E ch \in Channels, w \in Workers :
       /\ tasks[ch][w].pc = "batch_wait"
       /\ tasks[ch][w].msg.id = 1
       /\ message_queues[ch] = <<>>

\* the message has no trigger word, mention or reply, and its channel is no
\* DM or group channel that is answered unconditionally
NoOtherTrigger(m) ==
  /\ IsPlain(m)
  /\ m.channel \in DMChannels => ~allow_dm
  /\ m.channel \in GroupChannels => ~allow_gc

\* the tracker conv has an entry of (sender, channel) of m that is
\* CONVERSATION_TIMEOUT old or older at time t
StaleEntry(m, conv, t) ==
  /\ <<m.author, m.channel>> \in DOMAIN conv
  /\ t - conv[<<m.author, m.channel>>] >= CONVERSATION_TIMEOUT

\* C21: a classification that finds the entry of its sender and channel
\* stale, and no other condition true, returns false and leaves the tracker
\* as it was.
StaleStaysStale ==
  (/\ probe.op = "classify"
   /\ NoOtherTrigger(probe.msg)
   /\ StaleEntry(probe.msg, probe.before, probe.at)) =>
     /\ ~probe.result
     /\ active_conversations = probe.before

\* a plain message was classified exactly CONVERSATION_TIMEOUT after the
\* entry was written, with holding enabled
StaleStaysStaleWitness ==
  /\ probe.op = "classify"
  /\ NoOtherTrigger(probe.msg)
  /\ hold_conversation
  /\ StaleEntry(probe.msg, probe.before, probe.at)
  /\ probe.at - probe.before[<<probe.msg.author, probe.msg.channel>>]
       = CONVERSATION_TIMEOUT
  /\ ~probe.result

\* C23: a classification that returns true leaves the tracker it found with
\* the entry of (sender, channel) set to the time of the call and every
\* other entry as it was; one that returns false leaves the tracker as it
\* was.
TrackerWrittenOnTrue ==
  probe.op = "classify" =>
    LET key == <<probe.msg.author, probe.msg.channel>>
    IN IF probe.result
       THEN /\ key \in DOMAIN active_conversations
            /\ active_conversations[key] = probe.at
            /\ SameButFor(probe.before, active_conversations, key)
       ELSE active_conversations = probe.before

\* a classification returned true and wrote its entry while the tracker held
\* an older entry of another pair
TrackerWrittenWitness ==
  /\ probe.op = "classify"
  /\ probe.result
  /\ \E other \in DOMAIN active_conversations :
       /\ other # <<probe.msg.author, probe.msg.channel>>
       /\ active_conversations[other] < probe.at
  /\ <<probe.msg.author, probe.msg.channel>> \notin DOMAIN probe.before

\* C22: a check of a sender with no active cooldown whose stamps within the
\* window, the current message included, number SPAM_MESSAGE_THRESHOLD or
\* fewer is allowed, whatever the spacing of the stamps.
BurstUnderThresholdAllowed ==
  (/\ probe.op = "check"
   /\ ~(probe.cooldown # -1 /\ probe.at < probe.cooldown)
   /\ InWindow(probe.stamps, probe.at) + 1 <= SPAM_MESSAGE_THRESHOLD) =>
     /\ probe.ok
     /\ probe.verdict = "Allowed"
     /\ probe.user \notin DOMAIN user_cooldowns

\* the check that brought the count to the threshold was allowed, all
\* messages of the sender having arrived at the same instant
BurstAllowedWitness ==
  /\ probe.op = "check"
  /\ probe.ok
  /\ Len(probe.stamps) = SPAM_MESSAGE_THRESHOLD - 1
  /\ \A k \in 1..Len(probe.stamps) : probe.stamps[k] = probe.at

(***************************************************************************)
(* The dispatcher with a running clock: time passes between the arrival of *)
(* a message and the sends of its reply.                                   *)
(***************************************************************************)
SendMaxTicks == 2

SendInbound ==
  { Msg(1, "c1", T_hello, TRUE, None),
    Msg(2, "c1", T_how, TRUE, None) }

InitSend ==
  /\ InitState
  /\ ignore_users = {}
  /\ allow_dm = FALSE
  /\ allow_gc = FALSE
  /\ hold_conversation = TRUE
  /\ batch_messages \in BOOLEAN
  /\ realistic_typing = FALSE
  /\ message_history = EmptyDict
  /\ probe = [op |-> "init", ticks |-> 0]

\* a second passes
SendTick ==
  /\ probe.ticks < SendMaxTicks
  /\ now' = now + 1
  /\ probe' = [op |-> "tick", ticks |-> probe.ticks + 1]
  /\ UNCHANGED <<configVars, message_history, user_message_counts,
                 user_cooldowns, active_conversations, dispatcherVars>>

NextSend ==
  \/ \E m \in SendInbound : OnMessage(m)
  \/ \E ch \in Channels, w \in Workers : WorkerStart(ch, w)
  \/ \E ch \in Channels, w \in Workers : WorkerWake(ch, w)
  \/ \E ch \in Channels, w \in Workers : BatchWaitDone(ch, w)
  \/ \E ch \in Channels, w \in Workers, o \in GenOutcomes, k \in ChunkCounts :
        GenerateDone(ch, w, o, k)
  \/ \E ch \in Channels, w \in Workers, ok \in BOOLEAN : SendDone(ch, w, ok)
  \/ \E ch \in Channels, w \in Workers, ok \in ReportOutcomes :
        ReportDone(ch, w, ok)
  \/ SendTick

SpecSend == InitSend /\ [][NextSend]_vars

\* C24: a send that succeeds sets the entry of (sender of the first message
\* of the turn, channel) to the time of the send and leaves the other
\* entries alone; a send that fails leaves the tracker as it was.
SendRefreshesConversation ==
  [][\A ch \in Channels, w \in Workers :
       LET key == <<tasks[ch][w].msg.author, ch>>
       IN /\ SendDone(ch, w, TRUE) =>
               /\ key \in DOMAIN active_conversations'
               /\ active_conversations'[key] = now
               /\ SameButFor(active_conversations, active_conversations', key)
          /\ SendDone(ch, w, FALSE) =>
               active_conversations' = active_conversations]_vars

\* the first chunk of a reply was sent later than its message arrived, the
\* second is about to be sent, and the entry carries the time of the send
SendRefreshesWitness ==
  \E ch \in Channels, w \in Workers :
    LET t == tasks[ch][w]
        key == <<t.msg.author, ch>>
    IN /\ t.pc = "sending"
       /\ t.i = 2
       /\ Len(t.sent) = 1
       /\ key \in DOMAIN active_conversations
       /\ active_conversations[key] = now
       /\ t.msg.author \in DOMAIN user_message_counts
       /\ \A k \in 1..Len(user_message_counts[t.msg.author]) :
            user_message_counts[t.msg.author][k] < now

\* C25: the aggregation at the end of the wait removes from the queue exactly
\* the run of messages at its head that are of the sender of the dequeued
\* message and are not commands; what stays is the rest of the queue in its
\* order, empty or headed by a message of another sender or a command; the
\* batch holds messages of that sender only and the prompt joins their texts.
AggregationStops ==
  [][\A ch \in Channels, w \in Workers :
       BatchWaitDone(ch, w) =>
         LET a == tasks[ch][w].msg.author
             q == message_queues[ch]
             rest == message_queues'[ch]
             b == user_message_batches'[<<a, ch>>]
         IN /\ q = SameSenderRun(q, a) \o rest
            /\ \/ rest = <<>>
               \/ Head(rest).author # a
               \/ StartsWith(Head(rest).content, PREFIX)
            /\ \A k \in 1..Len(b.messages) : b.messages[k].author = a
            /\ tasks'[ch][w].prompt = JoinTexts(Texts(b.messages))]_vars

\* a batched turn is past its wait, at the end of which the queue was headed
\* by a message of another sender: that message is still queued and the
\* prompt is the text of the dequeued message alone
AggregationStopsWitness ==
  \E ch \in Channels, w \in Workers :
    LET t == tasks[ch][w]
    IN /\ batch_messages
       /\ t.pc \in RepliedPcs
       /\ t.atWake # <<>>
       /\ Head(t.atWake).author # t.msg.author
       /\ message_queues[ch] = t.atWake
       /\ t.took = <<t.msg>>
       /\ t.prompt = t.msg.content

\* C27 as stated: a BatchState exists only during the turn it was created
\* for: every stored batch is that of a turn in progress of its sender and
\* channel, and no turn found a batch when it dequeued its first message.
BatchDiesWithTurn ==
  /\ \A key \in DOMAIN user_message_batches :
       \E w \in Workers :
         /\ tasks[key[2]][w].pc \in TurnPcs
         /\ tasks[key[2]][w].msg.author = key[1]
  /\ \A ch \in Channels, w \in Workers :
       tasks[ch][w].pc \in TurnPcs => tasks[ch][w].stale = <<>>

\* C26 as stated: the texts joined into one composite prompt are pairwise
\* distinct, and no message is a member of the batch of two turns.
BatchTextsDistinct ==
  \A ch \in Channels, w \in Workers :
    LET t == tasks[ch][w]
        key == <<t.msg.author, ch>>
    IN (batch_messages /\ t.pc \in TurnPcs
          /\ key \in DOMAIN user_message_batches) =>
         LET msgs == user_message_batches[key].messages
         IN /\ \A j, k \in 1..Len(msgs) :
                 msgs[j].content = msgs[k].content => j = k
            /\ \A k \in 1..Len(msgs) : msgs[k].id > t.msg.id - 1

\* C28: with batching disabled no BatchState is ever stored and every turn
\* is that of its dequeued message alone: it does not wait, takes no other
\* message off the queue, and makes at most one completion call (exactly
\* one once generation is over), with the text and image of that message.
UnbatchedTurns ==
  ~batch_messages =>
    /\ user_message_batches = EmptyDict
    /\ \A ch \in Channels, w \in Workers :
         LET t == tasks[ch][w]
         IN t.pc \in TurnPcs =>
              /\ t.pc # "batch_wait"
              /\ t.took = <<t.msg>>
              /\ t.prompt = t.msg.content
              /\ t.image = t.msg.image
              /\ t.calls = IF t.pc \in {"typing", "generating"} THEN 0 ELSE 1

\* with batching disabled the completion call of a turn was made with the
\* text of its message while another message of the same sender is queued
UnbatchedTurnsWitness ==
  \E ch \in Channels, w \in Workers :
    LET t == tasks[ch][w]
    IN /\ ~batch_messages
       /\ t.pc = "sending"
       /\ t.calls = 1
       /\ t.prompt = t.msg.content
       /\ ch \in DOMAIN message_queues
       /\ message_queues[ch] # <<>>
       /\ Head(message_queues[ch]).author = t.msg.author
       /\ Head(message_queues[ch]).content # t.msg.content

IsBotEntry(e) == e.role = "BOT"

\* the bot-role entries of the ring of u, oldest first
BotRing(hist, u) == SelectSeq(DictGet(hist, u, <<>>), IsBotEntry)

\* C29: the bot-role entries of a sender's ring change only by the step in
\* which chunk 0 of a turn of that sender is sent successfully, which
\* appends one entry with the text of that chunk; the send of a later chunk
\* and a failed send leave the bot-role entries of every ring as they were.
OneBotEntryPerTurn ==
  [][\A u \in Users :
       LET before == BotRing(message_history, u)
           after == BotRing(message_history', u)
       IN /\ after # before =>
               \E ch \in Channels, w \in Workers :
                 LET t == tasks[ch][w]
                 IN /\ SendDone(ch, w, TRUE)
                    /\ t.i = 1
                    /\ t.msg.author = u
                    /\ after = Append(before,
                                      FormatEntry(FilterChunk(t.chunks[1]),
                                                  TRUE))
          /\ \A ch \in Channels, w \in Workers :
               /\ (SendDone(ch, w, TRUE) /\ tasks[ch][w].i = 1
                     /\ tasks[ch][w].msg.author = u) => after # before
               /\ (SendDone(ch, w, TRUE) /\ tasks[ch][w].i > 1) =>
                     after = before
               /\ SendDone(ch, w, FALSE) => after = before]_vars

\* the last of the chunks of a reply is about to be sent and the ring of the
\* sender holds one bot-role entry, the text of chunk 0
OneBotEntryWitness ==
  \E ch \in Channels, w \in Workers :
    LET t == tasks[ch][w]
    IN /\ t.pc = "sending"
       /\ t.i = MAX_CHUNKS_SENT
       /\ Len(t.sent) = MAX_CHUNKS_SENT - 1
       /\ BotRing(message_history, t.msg.author)
            = <<FormatEntry(t.sent[1], TRUE)>>

\* C30 as stated: the history of a turn's completion call is the sender's
\* ring as it was before the user entry of the turn was appended: in the
\* step that starts the reply of a turn the history handed over is the ring
\* the step leaves behind without its last entry, the prompt of the turn,
\* and has at most MAX_HISTORY entries.
HistoryIsPriorRing ==
  [][\A ch \in Channels, w \in Workers :
       (/\ tasks[ch][w].pc \notin {"typing", "generating"}
        /\ tasks'[ch][w].pc \in {"typing", "generating"}) =>
          LET t == tasks'[ch][w]
              ring == message_history'[t.msg.author]
          IN /\ ring[Len(ring)] = FormatEntry(t.prompt, FALSE)
             /\ t.history = SubSeq(ring, 1, Len(ring) - 1)
             /\ Len(t.history) <= MAX_HISTORY]_vars

\* C31 as stated: the completion call of a turn is made before the typing
\* simulation of the turn starts: a turn in its typing simulation has made
\* its completion call.
ComposeBeforeTyping ==
  \A ch \in Channels, w \in Workers :
    tasks[ch][w].pc = "typing" => tasks[ch][w].calls = 1

RECURSIVE FirstImage(_)
\* the attachment of the first of msgs that has one
FirstImage(msgs) ==
  IF msgs = <<>> THEN None
  ELSE IF Head(msgs).image # None THEN Head(msgs).image
  ELSE FirstImage(Tail(msgs))

\* C32 as stated: the image of a batched turn is the attachment of the first
\* message the turn took, or, when that one has none, of the first later
\* message of the turn that has one.
BatchImageFromBurst ==
  \A ch \in Channels, w \in Workers :
    LET t == tasks[ch][w]
    IN (batch_messages /\ t.pc \in RepliedPcs) => t.image = FirstImage(t.took)

\* C33: of the checks of one sender that lie less than SPAM_TIME_WINDOW
\* before any check of that sender, that check included, at most
\* SPAM_MESSAGE_THRESHOLD were allowed; so no interval shorter than the
\* window holds more allowed checks of a sender than the threshold.
AllowedPerWindow ==
  \A u \in Users :
    Len(probe.allowed[u]) <= SPAM_MESSAGE_THRESHOLD

\* a sender was allowed again at the expiry of a cooldown that followed
\* SPAM_MESSAGE_THRESHOLD allowed checks
AllowedPerWindowWitness ==
  /\ probe.op = "check"
  /\ probe.ok
  /\ probe.cooldown # -1
  /\ probe.at >= probe.cooldown
  /\ probe.n[probe.user] = SPAM_MESSAGE_THRESHOLD + 2
  /\ probe.allowed[probe.user] = <<probe.at>>

\* C34: the stamps kept for a sender number SPAM_MESSAGE_THRESHOLD at most
\* and none is kept for a sender who has a cooldown entry; a check of a
\* sender at or after the end of the sender's cooldown is allowed and
\* removes the cooldown entry.
StampsBounded ==
  /\ \A u \in DOMAIN user_message_counts :
       /\ Len(user_message_counts[u]) <= SPAM_MESSAGE_THRESHOLD
       /\ u \in DOMAIN user_cooldowns => user_message_counts[u] = <<>>
  /\ (/\ probe.op = "check"
      /\ probe.cooldown # -1
      /\ probe.at >= probe.cooldown) =>
        /\ probe.ok
        /\ probe.verdict = "Allowed"
        /\ probe.stamps = <<>>
        /\ probe.user \notin DOMAIN user_cooldowns
        /\ user_message_counts[probe.user] = <<probe.at>>

\* the check of a sender at the very end of the sender's cooldown was
\* allowed and removed the entry
StampsBoundedWitness ==
  /\ probe.op = "check"
  /\ probe.cooldown # -1
  /\ probe.at = probe.cooldown
  /\ probe.ok
  /\ probe.user \notin DOMAIN user_cooldowns

(***************************************************************************)
(* Acceptance: on_message alone.  on_message runs to its return without    *)
(* yielding and reads of the workers only the lock of the channel, so the  *)
(* workers are left out of these specifications: no spawned task gets to   *)
(* run.  Channel c2 is a guild channel that is not active.                 *)
(***************************************************************************)
FloodMaxMsgs == 7

FloodInbound ==
  { Msg(1, "c2", T_hey, FALSE, None),
    Msg(1, "c1", T_hello, TRUE, None),
    Msg(2, "c1", T_hello, TRUE, None) }

\* the state after construction with c1 the only active channel
AcceptState ==
  /\ now = 0
  /\ paused = FALSE
  /\ active_channels = {"c1"}
  /\ message_queues = EmptyDict
  /\ processing_locks = EmptyDict
  /\ user_message_batches = EmptyDict
  /\ tasks = [ch \in Channels |-> [w \in Workers |-> IdleTask]]
  /\ arrivals = 0
  /\ lastTaken = [ch \in Channels |-> 0]
  /\ crashed = [ch \in Channels |-> FALSE]
  /\ ignore_users = {}
  /\ allow_dm = FALSE
  /\ allow_gc = FALSE
  /\ hold_conversation = TRUE
  /\ batch_messages = TRUE
  /\ realistic_typing = TRUE
  /\ message_history = EmptyDict
  /\ probe = [op |-> "init", msg |-> NoMsg, ticks |-> 0, queued |-> FALSE,
              trig |-> FALSE, seenBefore |-> {}]

InitFlood ==
  /\ AcceptState
  /\ user_message_counts = EmptyDict
  /\ user_cooldowns = EmptyDict
  /\ active_conversations = EmptyDict

\* the arrival of a message, with a note of what became of it
AcceptMessage(m0, max) ==
  /\ arrivals < max
  /\ Arrive(m0)
  /\ probe' = [probe EXCEPT
                 !.op = "message",
                 !.msg = [m0 EXCEPT !.id = arrivals + 1],
                 !.queued = message_queues' # message_queues,
                 !.trig = ClassifierRuns(m0) /\ IsTriggerMessage(m0),
                 !.seenBefore =
                    IF probe.op = "init" THEN {}
                    ELSE @ \cup {probe.msg.channel}]

FloodMessage(m0) == AcceptMessage(m0, FloodMaxMsgs)

NextFlood == \E m \in FloodInbound : FloodMessage(m)

SpecFlood == InitFlood /\ [][NextFlood]_vars

\* the governor would let a message of u through at time t
GovernorAllows(u, t) ==
  /\ ~(u \in DOMAIN user_cooldowns /\ t < user_cooldowns[u])
  /\ InWindow(DictGet(user_message_counts, u, <<>>), t) + 1
       <= SPAM_MESSAGE_THRESHOLD

\* C35: a reply-worthy message in a guild channel that is not active is not
\* enqueued, yet the governor handles it as any other message of its
\* sender: it is stamped, or it trips the cooldown of the sender; and a
\* message of a sender on cooldown is not enqueued in any channel.
GovernorBeforeChannel ==
  [][\A m \in FloodInbound :
       FloodMessage(m) =>
         LET a == m.author
             inactive == m.channel \in GuildChannels \ active_channels
             old == DictGet(user_message_counts, a, <<>>)
             cooling == a \in DOMAIN user_cooldowns /\ now < user_cooldowns[a]
         IN /\ inactive => message_queues' = message_queues
            /\ (inactive /\ IsTriggerMessage(m) /\ ~cooling) =>
                 IF GovernorAllows(a, now)
                 THEN /\ a \in DOMAIN user_message_counts'
                      /\ user_message_counts'[a]
                           = Append(Recent(old, now), now)
                 ELSE /\ a \in DOMAIN user_cooldowns'
                      /\ user_cooldowns'[a] = now + COOLDOWN_DURATION
            /\ cooling => /\ message_queues' = message_queues
                          /\ user_cooldowns' = user_cooldowns]_vars

\* a mention in the active channel c1 was rejected for a cooldown of its
\* sender, every message before it having arrived in the inactive channel
\* c2; nothing was ever enqueued
GovernorBeforeChannelWitness ==
  /\ probe.op = "message"
  /\ probe.msg.channel = "c1"
  /\ probe.msg.channel \in active_channels
  /\ probe.msg.mentioned
  /\ probe.seenBefore = {"c2"}
  /\ ~probe.queued
  /\ message_queues = EmptyDict
  /\ probe.msg.author \in DOMAIN user_cooldowns
  /\ now < user_cooldowns[probe.msg.author]

AcceptMaxMsgs == 4
AcceptMaxTicks == 2

AcceptTickSteps == {CONVERSATION_TIMEOUT - 1}

AcceptInbound ==
  { Msg(1, "c2", T_hey, FALSE, None),
    Msg(1, "c2", T_hi, FALSE, None),
    Msg(1, "c1", T_hello, TRUE, None),
    Msg(1, "d1", T_hey, FALSE, None),
    Msg(SELFBOT_ID, "c1", T_cmd_pause, FALSE, None),
    Msg(SELFBOT_ID, "c2", T_cmd_toggle, FALSE, None) }

\* the state after construction, or the state six messages "hey" of sender 1
\* in c2 leave at once: sender 1 on cooldown, no stamps, nothing enqueued
InitAccept ==
  /\ AcceptState
  /\ \E flooded \in BOOLEAN :
       /\ user_message_counts =
            IF flooded THEN DictSet(EmptyDict, 1, <<>>) ELSE EmptyDict
       /\ user_cooldowns =
            IF flooded THEN DictSet(EmptyDict, 1, COOLDOWN_DURATION)
            ELSE EmptyDict
       /\ active_conversations =
            IF flooded THEN DictSet(EmptyDict, <<1, "c2">>, 0) ELSE EmptyDict

AcceptArrival(m0) == AcceptMessage(m0, AcceptMaxMsgs)

AcceptTick(d) ==
  /\ probe.ticks < AcceptMaxTicks
  /\ now' = now + d
  /\ probe' = [probe EXCEPT !.op = "tick", !.ticks = @ + 1]
  /\ UNCHANGED <<configVars, message_history, user_message_counts,
                 user_cooldowns, active_conversations, dispatcherVars>>

NextAccept ==
  \/ \E m \in AcceptInbound : AcceptArrival(m)
  \/ \E d \in AcceptTickSteps : AcceptTick(d)

SpecAccept == InitAccept /\ [][NextAccept]_vars

\* m passes the filter, is no command and the classifier finds it
\* reply-worthy in the current state
ReplyWorthy(m) ==
  /\ ~(ShouldIgnoreMessage(m) /\ m.author # OWNER_ID)
  /\ ~StartsWith(m.content, PREFIX)
  /\ IsTriggerMessage(m)

\* C36: the arrival of a reply-worthy message sets the entry of its sender
\* and channel to the time of arrival whatever becomes of the message
\* (paused, rejected by the governor, channel not active, enqueued); with
\* holding enabled the conversation is live afterwards.
ClassificationRefreshes ==
  [][\A m \in AcceptInbound :
       (AcceptArrival(m) /\ ReplyWorthy(m)) =>
         /\ <<m.author, m.channel>> \in DOMAIN active_conversations'
         /\ active_conversations'[<<m.author, m.channel>>] = now
         /\ hold_conversation =>
              InConversationAt(m, active_conversations', now)]_vars

\* a message without trigger word or mention in the inactive channel c2 was
\* found reply-worthy for the live conversation alone and dropped, twice
\* CONVERSATION_TIMEOUT - 1 after the trigger that started the conversation:
\* the dropped message in between kept it live
ClassificationRefreshesWitness ==
  /\ probe.op = "message"
  /\ probe.msg.content = T_hi
  /\ probe.msg.channel \notin active_channels
  /\ probe.trig
  /\ ~probe.queued
  /\ message_queues = EmptyDict
  /\ now = 2 * (CONVERSATION_TIMEOUT - 1)
  /\ active_conversations[<<probe.msg.author, probe.msg.channel>>] = now

\* C39: a message in a guild channel is enqueued only if the channel is in
\* the active set when it arrives; a reply-worthy message in a direct or
\* group channel that the governor lets through while the bot is not paused
\* is enqueued whatever the active set and allow_dm, allow_gc are.
GuildNeedsActive ==
  [][\A m \in AcceptInbound :
       AcceptArrival(m) =>
         LET ch == m.channel
             old == DictGet(message_queues, ch, <<>>)
         IN /\ (message_queues' # message_queues /\ ch \in GuildChannels)
                 => ch \in active_channels
            /\ (/\ ch \in DMChannels \cup GroupChannels
                /\ ReplyWorthy(m)
                /\ ~paused
                /\ GovernorAllows(m.author, now)) =>
                  /\ ch \in DOMAIN message_queues'
                  /\ message_queues'[ch]
                       = Append(old, [m EXCEPT !.id = arrivals + 1])]_vars

\* a direct message with a trigger word was enqueued with replies to direct
\* messages disabled and its channel not in the active set, after a message
\* in the guild channel c2 was enqueued once c2 had been made active
GuildNeedsActiveWitness ==
  /\ probe.op = "message"
  /\ probe.msg.channel \in DMChannels
  /\ probe.queued
  /\ ~allow_dm
  /\ probe.msg.channel \notin active_channels
  /\ "c2" \in active_channels
  /\ "c2" \in DOMAIN message_queues
  /\ message_queues["c2"] # <<>>

\* C37: while the bot is paused the arrival of a message changes no queue
\* and no stamps or cooldowns; the workers go on as if it were not: a worker
\* that takes the free lock of a channel dequeues the head of its queue, and
\* the successful send of chunk 0 appends the bot entry to the history.
PauseGatesAcceptance ==
  [][/\ \A m \in GateInbound :
          (paused /\ OnMessage(m)) =>
            /\ message_queues' = message_queues
            /\ user_message_counts' = user_message_counts
            /\ user_cooldowns' = user_cooldowns
     /\ \A ch \in Channels, w \in Workers :
          LET t == tasks[ch][w]
          IN /\ (/\ paused
                 /\ WorkerStart(ch, w)
                 /\ ~processing_locks[ch].locked
                 /\ processing_locks[ch].waiters = <<>>
                 /\ message_queues[ch] # <<>>) =>
                   /\ message_queues'[ch] = Tail(message_queues[ch])
                   /\ tasks'[ch][w].msg = Head(message_queues[ch])
                   /\ tasks'[ch][w].pc \in TurnPcs
             /\ (paused /\ SendDone(ch, w, TRUE) /\ t.i = 1) =>
                   BotRing(message_history', t.msg.author)
                     = Append(BotRing(message_history, t.msg.author),
                              FormatEntry(FilterChunk(t.chunks[1]), TRUE))]_vars

\* a message that was in the queue when the bot was paused has been
\* dequeued during the pause: its prompt is in the history and its reply is
\* being sent
PauseGatesWitness ==
  \E ch \in Channels, w \in Workers :
    LET t == tasks[ch][w]
    IN /\ paused
       /\ t.whilePaused
       /\ t.pc = "sending"
       /\ t.msg.author \in DOMAIN message_history
       /\ message_history[t.msg.author] # <<>>
       /\ message_queues[ch] = <<>>

IsUserEntry(e) == e.role = "USER"

\* the user-role entries of the ring of u, oldest first
UserRing(hist, u) == SelectSeq(DictGet(hist, u, <<>>), IsUserEntry)

\* the step of worker w of ch hands a prompt over to
\* generate_response_and_reply: after the wait of a batched turn, or in the
\* step that dequeues the message of an unbatched one
TurnComposes(ch, w) ==
  /\ tasks'[ch][w].pc \in {"typing", "generating"}
  /\ \/ tasks[ch][w].pc = "batch_wait"
     \/ tasks'[ch][w].msg.id # tasks[ch][w].msg.id

\* C38: the user-role entries of a sender's ring change only in the step in
\* which a turn of that sender hands over its prompt, by one appended entry
\* with that prompt, before the completion call of the turn; no later step
\* of the turn (an empty generation and a failed send included) takes it
\* out; and a ring never holds more bot-role than user-role entries.
OneUserEntryPerTurn ==
  /\ [](\A u \in Users :
          Len(UserRing(message_history, u)) >= Len(BotRing(message_history, u)))
  /\ [][\A u \in Users :
          LET before == UserRing(message_history, u)
              after == UserRing(message_history', u)
          IN /\ \A ch \in Channels, w \in Workers :
                  (TurnComposes(ch, w) /\ tasks'[ch][w].msg.author = u) =>
                    /\ after = Append(before,
                                      FormatEntry(tasks'[ch][w].prompt, FALSE))
                    /\ tasks'[ch][w].calls = 0
             /\ after # before =>
                  \E ch \in Channels, w \in Workers :
                    TurnComposes(ch, w) /\ tasks'[ch][w].msg.author = u]_vars

\* the first send of a turn failed and the ring of the sender holds the user
\* entry of the turn's prompt and no bot entry
OneUserEntryWitness ==
  \E ch \in Channels, w \in Workers :
    LET t == tasks[ch][w]
    IN /\ t.pc = "report_send"
       /\ t.sent = <<>>
       /\ t.calls = 1
       /\ UserRing(message_history, t.msg.author)
            = <<FormatEntry(t.prompt, FALSE)>>
       /\ BotRing(message_history, t.msg.author) = <<>>

====
